---- MODULE Spec2Model ----
(***************************************************************************)
(* Model of the settings resolution of CascadiaSettings::LoadAll           *)
(* (src/cascadia/TerminalSettingsModel/CascadiaSettings.cpp).              *)
(*                                                                         *)
(* Profiles live in an arena (heap): a profile reference (com_ptr) is the  *)
(* index of its record in heap.  One load is executed step by step: pc is  *)
(* the position inside LoadAll.                                            *)
(***************************************************************************)
EXTENDS Integers, Sequences, FiniteSets, TLC

\* ------------------------------------------------------------------------
\* Bounds of the model
\* ------------------------------------------------------------------------
\* number of elements of the profile list of settings.json
MaxUserProfiles == 2
\* number of fragment files found during the directory traversal
MaxFragmentFiles == 1

\* ------------------------------------------------------------------------
\* Values
\* ------------------------------------------------------------------------
\* winrt::guid{}: the zero GUID
NilGuid == 0
\* the empty string (no name, no source)
NoText == ""
\* a setting nobody declared
Unset == "unset"

\* color schemes: the key of globals->ColorSchemes(), which is also the name
\* a profile without colorScheme resolves to, and a name that is no key
CampbellScheme == "Campbell"
UnknownScheme == "Nope"
ColorSchemes == {CampbellScheme}
\* the marker ClearColorSchemeName leaves on a profile
Cleared == "cleared"

\* OriginTag
OriginTags == {"InBox", "Generated", "Fragment", "ProfilesDefaults", "User"}

\* The three generators LoadAll runs, in this order: their namespaces.
PowershellCoreNamespace == "Windows.Terminal.PowershellCore"
WslDistroNamespace == "Windows.Terminal.Wsl"
AzureCloudShellNamespace == "Windows.Terminal.Azure"
GeneratorNamespaces == <<PowershellCoreNamespace, WslDistroNamespace, AzureCloudShellNamespace>>
\* The publisher whose fragment directory is traversed.
FragmentPublisher == "Publisher"

\* The value each origin writes into the observed setting (fontFace):
\* distinct values, so that the effective value tells which layer won.
UserFont == "user"
UserDefaultsFont == "profiles.defaults"
FragmentFont == "fragment"
GeneratedFont == "generated"
InBoxFont == "inbox"
InBoxDefaultsFont == "inbox profiles.defaults"

\* ------------------------------------------------------------------------
\* Profile (Profile.h is not part of the sources: the record follows the
\* fields LoadAll reads and writes)
\* ------------------------------------------------------------------------
NewProfile ==
    [origin |-> "User", name |-> NoText, guid |-> NilGuid, hidden |-> FALSE,
     deleted |-> FALSE, source |-> NoText, updates |-> NilGuid,
     parents |-> <<>>, font |-> Unset,
     colorScheme |-> Unset, unfocusedScheme |-> Unset]

\* uuid5(namespace of the source, name): deterministic and outside the
\* range of the GUIDs written in the files.
GenerateGuidForProfile(name, source) ==
    LET texts == <<"", "Cmd", "Work", "Fragment", "Publisher">>
        code(t) == CHOOSE i \in 1..Len(texts) : texts[i] = t
    IN 100 + 10 * code(source) + code(name)

\* Profile::Guid(): the declared GUID, else the one derived from the name.
Guid(p) == IF p.guid # NilGuid THEN p.guid ELSE GenerateGuidForProfile(p.name, p.source)

\* Profile::HasGuid()
HasGuid(p) == p.guid # NilGuid

\* A JSON element of a profile list.
JsonProfile(hasName, name, hasGuid, guid, hidden, updates, font) ==
    [isObject |-> TRUE, hasName |-> hasName, name |-> name, hasGuid |-> hasGuid,
     guid |-> guid, hidden |-> hidden, updates |-> updates, font |-> font,
     colorScheme |-> Unset, unfocusedScheme |-> Unset, source |-> NoText]

\* The object with the colorScheme members of its appearances:
\* unfocusedScheme is the colorScheme of its unfocusedAppearance object, Unset
\* if the object has no unfocusedAppearance.
WithSchemes(json, colorScheme, unfocusedScheme) ==
    [json EXCEPT !.colorScheme = colorScheme, !.unfocusedScheme = unfocusedScheme]

\* Profile::FromJson: every member present in the object is copied.
FromJson(json) ==
    [NewProfile EXCEPT !.name = IF json.hasName THEN json.name ELSE NoText,
                       !.guid = IF json.hasGuid THEN json.guid ELSE NilGuid,
                       !.hidden = json.hidden,
                       !.source = json.source,
                       !.updates = json.updates,
                       !.font = json.font,
                       !.colorScheme = json.colorScheme,
                       !.unfocusedScheme = json.unfocusedScheme]

\* IInheritable::InsertParent(parent): appended as the last parent.
InsertParent(heap, child, parent) ==
    [heap EXCEPT ![child].parents = Append(@, parent)]

\* IInheritable::InsertParent(0, parent): inserted as the first parent.
InsertParentAt0(heap, child, parent) ==
    [heap EXCEPT ![child].parents = <<parent>> \o @]

\* ------------------------------------------------------------------------
\* ParsedSettings and the parser
\* ------------------------------------------------------------------------
\* A catalog under construction: the arena, the ParsedSettings being filled
\* (profiles, profilesByGuid) and the warnings of the settings object.
Catalog(heap, profiles, profilesByGuid, warnings) ==
    [heap |-> heap, profiles |-> profiles, profilesByGuid |-> profilesByGuid,
     warnings |-> warnings]

\* The empty map.
EmptyMap == [g \in {} |-> 0]

\* _isValidProfileObject as it was before GH#9964: every object is a profile.
isValidProfileObjectAnyObject(profileJson) == profileJson.isObject

\* CascadiaSettings::_isValidProfileObject
isValidProfileObject(profileJson) ==
    profileJson.isObject /\ (profileJson.hasName \/ profileJson.hasGuid)

\* _append that lets the last profile of a GUID win: the index is
\* re-pointed, the profile is listed and no warning is recorded.
appendOverwriting(c, profile) ==
    LET guid == Guid(c.heap[profile]) IN
    [c EXCEPT !.profilesByGuid = (guid :> profile) @@ @,
              !.profiles = Append(@, profile)]

\* CascadiaSettings::_append: index the profile under its GUID and list it,
\* or reject it with a DuplicateProfile warning.
append(c, profile) ==
    LET guid == Guid(c.heap[profile]) IN
    IF guid \notin DOMAIN c.profilesByGuid
    THEN [c EXCEPT !.profilesByGuid = @ @@ (guid :> profile),
                   !.profiles = Append(@, profile)]
    ELSE [c EXCEPT !.warnings = Append(@, "DuplicateProfile")]

\* The loop over profiles.list of CascadiaSettings::_parse.
RECURSIVE parseProfilesList(_, _, _)
parseProfilesList(c, origin, profilesArray) ==
    IF profilesArray = <<>> THEN c
    ELSE LET profileJson == Head(profilesArray) IN
         IF isValidProfileObject(profileJson)
         THEN LET parsed == [FromJson(profileJson) EXCEPT !.origin = origin]
                  profile == [parsed EXCEPT !.guid = Guid(parsed)]
                  id == Len(c.heap) + 1
                  c1 == [c EXCEPT !.heap = Append(@, profile)]
              IN parseProfilesList(append(c1, id), origin, Tail(profilesArray))
         ELSE parseProfilesList(c, origin, Tail(profilesArray))

\* CascadiaSettings::_parse(settings, origin, content): profiles and
\* profilesByGuid are cleared and filled from the document.
parse(heap, warnings, origin, profilesArray) ==
    parseProfilesList(Catalog(heap, <<>>, EmptyMap, warnings), origin, profilesArray)

\* The profiles.defaults object of a document: its guid is cleared and its
\* origin is ProfilesDefaults whatever the origin of the document is.
parseProfileDefaults(defaultsObject) ==
    [FromJson(defaultsObject) EXCEPT !.guid = NilGuid, !.origin = "ProfilesDefaults"]

\* ------------------------------------------------------------------------
\* Layering
\* ------------------------------------------------------------------------
\* reproduceProfile with InsertParent(profile): the new profile, which gets
\* the next place of the arena, is its own parent.
reproduceProfileOfItself(heap, parent) ==
    [NewProfile EXCEPT !.origin = heap[parent].origin,
                       !.name = heap[parent].name,
                       !.guid = Guid(heap[parent]),
                       !.hidden = heap[parent].hidden,
                       !.source = heap[parent].source,
                       !.parents = <<Len(heap) + 1>>]

\* reproduceProfile without the copy of Hidden().
reproduceProfileShown(heap, parent) ==
    [NewProfile EXCEPT !.origin = heap[parent].origin,
                       !.name = heap[parent].name,
                       !.guid = Guid(heap[parent]),
                       !.source = heap[parent].source,
                       !.parents = <<parent>>]

\* reproduceProfile: a new profile that copies the identifying attributes
\* of parent and has parent as its only parent.
reproduceProfile(heap, parent) ==
    [NewProfile EXCEPT !.origin = heap[parent].origin,
                       !.name = heap[parent].name,
                       !.guid = Guid(heap[parent]),
                       !.hidden = heap[parent].hidden,
                       !.source = heap[parent].source,
                       !.parents = <<parent>>]

\* CascadiaSettings::_layerGeneratedProfiles: profilesByGuid.emplace(guid,
\* generatedProfile) indexes the candidate itself; when the GUID was already
\* indexed the candidate becomes the last parent of the indexed profile,
\* otherwise a reproduction of the candidate is listed.
RECURSIVE layerGeneratedProfiles(_, _)
layerGeneratedProfiles(c, generatedProfiles) ==
    IF generatedProfiles = <<>> THEN c
    ELSE LET generatedProfile == Head(generatedProfiles)
             guid == Guid(c.heap[generatedProfile])
         IN
         IF guid \in DOMAIN c.profilesByGuid
         THEN layerGeneratedProfiles(
                  [c EXCEPT !.heap = InsertParent(@, c.profilesByGuid[guid], generatedProfile)],
                  Tail(generatedProfiles))
         ELSE LET child == reproduceProfile(c.heap, generatedProfile)
                  id == Len(c.heap) + 1
              IN layerGeneratedProfiles(
                  [c EXCEPT !.heap = Append(@, child),
                            !.profilesByGuid = @ @@ (guid :> generatedProfile),
                            !.profiles = Append(@, id)],
                  Tail(generatedProfiles))

\* layerFragmentProfiles with a fall-through: a profile whose `updates`
\* names no indexed profile is reproduced and handed to _append.
RECURSIVE layerFragmentProfilesFallThrough(_, _, _)
layerFragmentProfilesFallThrough(c, fragmentProfiles, source) ==
    IF fragmentProfiles = <<>> THEN c
    ELSE LET fragmentProfile == Head(fragmentProfiles)
             updates == c.heap[fragmentProfile].updates
             h1 == [c.heap EXCEPT ![fragmentProfile].source = source]
         IN
         IF updates # NilGuid /\ updates \in DOMAIN c.profilesByGuid
         THEN layerFragmentProfilesFallThrough(
                  [c EXCEPT !.heap = InsertParentAt0(h1, c.profilesByGuid[updates],
                                                     fragmentProfile)],
                  Tail(fragmentProfiles), source)
         ELSE LET child == reproduceProfile(h1, fragmentProfile)
                  id == Len(h1) + 1
                  c1 == [c EXCEPT !.heap = Append(h1, child)]
              IN layerFragmentProfilesFallThrough(append(c1, id), Tail(fragmentProfiles),
                                                  source)

\* The loop over fragmentSettings.profiles in parseAndLayerFragmentFiles:
\* a profile with `updates` becomes the first parent of the indexed profile
\* with that GUID if there is one (and is dropped otherwise); a profile
\* without `updates` is reproduced and handed to _append.
RECURSIVE layerFragmentProfiles(_, _, _)
layerFragmentProfiles(c, fragmentProfiles, source) ==
    IF fragmentProfiles = <<>> THEN c
    ELSE LET fragmentProfile == Head(fragmentProfiles)
             updates == c.heap[fragmentProfile].updates
         IN
         IF updates # NilGuid
         THEN IF updates \in DOMAIN c.profilesByGuid
              THEN LET h1 == [c.heap EXCEPT ![fragmentProfile].source = source]
                       h2 == InsertParentAt0(h1, c.profilesByGuid[updates], fragmentProfile)
                   IN layerFragmentProfiles([c EXCEPT !.heap = h2], Tail(fragmentProfiles), source)
              ELSE layerFragmentProfiles(c, Tail(fragmentProfiles), source)
         ELSE LET h1 == [c.heap EXCEPT ![fragmentProfile].source = source]
                  child == reproduceProfile(h1, fragmentProfile)
                  id == Len(h1) + 1
                  c1 == [c EXCEPT !.heap = Append(h1, child)]
              IN layerFragmentProfiles(append(c1, id), Tail(fragmentProfiles), source)

\* ------------------------------------------------------------------------
\* Inheritance (IInheritable.h is not part of the sources: first declaration
\* wins, the parents are scanned front to back, depth first)
\* ------------------------------------------------------------------------
RECURSIVE FirstSet(_, _, _)
RECURSIVE EffectiveFontWithin(_, _, _)
\* the first value found among the profiles of ps, in order
FirstSet(heap, ps, depth) ==
    IF ps = <<>> THEN Unset
    ELSE LET v == EffectiveFontWithin(heap, Head(ps), depth) IN
         IF v # Unset THEN v ELSE FirstSet(heap, Tail(ps), depth)

EffectiveFontWithin(heap, p, depth) ==
    IF heap[p].font # Unset THEN heap[p].font
    ELSE IF depth = 0 THEN Unset
    ELSE FirstSet(heap, heap[p].parents, depth - 1)

\* the effective value of the setting on profile p
EffectiveFont(heap, p) == EffectiveFontWithin(heap, p, Len(heap))

RECURSIVE FirstSetOf(_, _, _, _)
RECURSIVE EffectiveSettingWithin(_, _, _, _)
\* the same lookup for the setting named key; the marker of a cleared
\* setting counts as a declaration and shadows the parents
FirstSetOf(heap, ps, key, depth) ==
    IF ps = <<>> THEN Unset
    ELSE LET v == EffectiveSettingWithin(heap, Head(ps), key, depth) IN
         IF v # Unset THEN v ELSE FirstSetOf(heap, Tail(ps), key, depth)

EffectiveSettingWithin(heap, p, key, depth) ==
    IF heap[p][key] # Unset THEN heap[p][key]
    ELSE IF depth = 0 THEN Unset
    ELSE FirstSetOf(heap, heap[p].parents, key, depth - 1)

EffectiveSetting(heap, p, key) == EffectiveSettingWithin(heap, p, key, Len(heap))

\* AppearanceConfig::ColorSchemeName() of the appearance whose setting is
\* key: the effective name, the default name if none is declared
ColorSchemeName(heap, p, key) ==
    LET v == EffectiveSetting(heap, p, key) IN
    IF v \in {Unset, Cleared} THEN CampbellScheme ELSE v

\* Profile::UnfocusedAppearance() is not null
HasUnfocusedAppearance(heap, p) == EffectiveSetting(heap, p, "unfocusedScheme") # Unset

\* ------------------------------------------------------------------------
\* Inputs of a load
\* ------------------------------------------------------------------------
\* all sequences over S of length at most n
SeqsUpTo(S, n) == UNION {[1..k -> S] : k \in 0..n}

\* DEFAULT_WINDOWS_POWERSHELL_GUID and DEFAULT_COMMAND_PROMPT_GUID
DEFAULT_WINDOWS_POWERSHELL_GUID == 3
DEFAULT_COMMAND_PROMPT_GUID == 6

\* names
CmdName == "Cmd"
WorkName == "Work"
WindowsPowershellName == "Windows PowerShell"
PreferredPowershellProfileName == "PowerShell"
WslName == "Ubuntu"
AzureName == "Azure Cloud Shell"
FragmentName == "Fragment"
CommandPromptDisplayName == "Command Prompt"

\* elements of the profile list of settings.json
UserObjects ==
    { JsonProfile(TRUE, CmdName, TRUE, 1, FALSE, NilGuid, Unset),
      WithSchemes(JsonProfile(TRUE, CmdName, TRUE, 1, FALSE, NilGuid, UserFont),
                  CampbellScheme, UnknownScheme),
      WithSchemes(JsonProfile(TRUE, WorkName, TRUE, 2, TRUE, NilGuid, Unset),
                  UnknownScheme, Unset),
      JsonProfile(FALSE, NoText, FALSE, NilGuid, FALSE, NilGuid, UserFont) }

\* the contents defaults.json may have: the setting of its profiles.defaults
\* object and its profile list
DefaultJsonDocuments ==
    LET windowsPowershell ==
            JsonProfile(TRUE, WindowsPowershellName, TRUE, DEFAULT_WINDOWS_POWERSHELL_GUID,
                        FALSE, NilGuid, InBoxFont)
    IN { [defaultsFont |-> Unset, list |-> <<>>],
         [defaultsFont |-> Unset, list |-> <<windowsPowershell>>],
         [defaultsFont |-> InBoxDefaultsFont, list |-> <<windowsPowershell>>] }

\* what a generator may emit: name and GUID of each profile.  GUID 4 is
\* emitted by two generators and GUID 2 is one the user file may declare.
GeneratorOutputs(ns) ==
    IF ns = PowershellCoreNamespace
    THEN { <<>>, << [name |-> PreferredPowershellProfileName, guid |-> 4] >> }
    ELSE IF ns = WslDistroNamespace
    THEN { <<>>, << [name |-> WslName, guid |-> 4] >> }
    ELSE { <<>>, << [name |-> AzureName, guid |-> 2] >> }

\* the profile lists a fragment file may hold
FragmentFileLists ==
    {<<>>} \cup
    { <<o>> : o \in {
      \* overlay onto the profile with GUID 1
      WithSchemes(JsonProfile(TRUE, FragmentName, FALSE, NilGuid, FALSE, 1, FragmentFont),
                  UnknownScheme, Unset),
      \* the same overlay without name and guid
      JsonProfile(FALSE, NoText, FALSE, NilGuid, FALSE, 1, FragmentFont),
      \* overlay onto the profile with GUID 4, carrying a GUID of its own
      JsonProfile(TRUE, FragmentName, TRUE, 1, FALSE, 4, FragmentFont),
      \* profiles of their own
      JsonProfile(TRUE, FragmentName, TRUE, 1, FALSE, NilGuid, FragmentFont),
      JsonProfile(TRUE, FragmentName, TRUE, 7, FALSE, NilGuid, FragmentFont),
      \* a hidden profile of its own
      JsonProfile(TRUE, FragmentName, TRUE, 7, TRUE, NilGuid, Unset) } }

\* the contents the persisted generatedProfiles set may have
PersistedStates == { {}, {4}, {4, 7} }

\* the disabledProfileSources the user file may declare
DisabledProfileSources == { {}, {WslDistroNamespace} }

\* the GUIDs the files and the generators declare
DeclaredGuids == 1..7

\* Utils::GuidToString: "{1}" stands for the 38 characters of a GUID string
GuidToString(guid) == "{" \o ToString(guid) \o "}"

\* GUIDs as text
GuidStrings == {"{1}", "{2}", "{3}", "{4}", "{5}", "{6}", "{7}"}

\* Utils::GuidFromString
GuidFromString(text) ==
    IF text \in GuidStrings
    THEN CHOOSE guid \in DeclaredGuids : GuidToString(guid) = text
    ELSE NilGuid

\* the globals and the profiles.defaults object settings.json may hold:
\* disabledProfileSources, defaultProfile (unset, a GUID string or a profile
\* name) and the setting of profiles.defaults
UserGlobals ==
    { [disabledProfileSources |-> {}, defaultProfile |-> NoText,
       defaultsFont |-> Unset],
      [disabledProfileSources |-> {}, defaultProfile |-> "{1}",
       defaultsFont |-> UserDefaultsFont],
      [disabledProfileSources |-> {WslDistroNamespace}, defaultProfile |-> WorkName,
       defaultsFont |-> Unset],
      [disabledProfileSources |-> {WslDistroNamespace}, defaultProfile |-> "{4}",
       defaultsFont |-> UserDefaultsFont] }

\* ------------------------------------------------------------------------
\* State
\* ------------------------------------------------------------------------
VARIABLES
    pc,                 \* position inside LoadAll
    heap,               \* the arena of Profile objects
    defaultSettings,    \* ParsedSettings of defaults.json; its profiles
                        \* vector is reused as generatedProfiles
    userSettings,       \* ParsedSettings of settings.json
    warnings,           \* settings->_warnings
    settingsStringEmpty,\* settingsString.empty()
    needToWriteFile,
    ignoredNamespaces,
    unparsedDefaultProfile, \* globals->UnparsedDefaultProfile()
    userProfileCount,
    generatorIndex,     \* the generator executeGenerator runs next
    failedGenerators,   \* namespaces logged by CATCH_LOG_MSG (the generator threw)
    invokedGenerators,  \* namespaces of the generators whose GenerateProfiles ran
    fragmentFiles,      \* the profile lists of the fragment files read so far
    fragmentSettings,   \* ParsedSettings the fragment files are parsed into
    defaultProfile,     \* globals->DefaultProfile()
    stateLoaded,        \* ApplicationState::GeneratedProfiles() as read
    stateStored,        \* the set the ApplicationState holds
    stateWritten,       \* the setter ApplicationState::GeneratedProfiles(ids) ran
    allProfiles,        \* settings->_allProfiles
    activeProfiles,     \* settings->_activeProfiles
    loadError,          \* settings->_loadError
    fileWritten,        \* WriteSettingsToDisk: "no" (not called), "written", "failed"
    content,            \* _parse: the origin and the profile list of the document
    parsedSettings,     \* _parse: the ParsedSettings it filled
    callerAt,           \* extractValueFromTaskWithoutMainThreadAwait: the calling thread
    coroutineAt,        \* the statement of the lambda coroutine that runs next
    tasks,              \* the async tasks handed to the function, in call order
    finalVal,           \* std::optional finalVal: <<>> or <<value>>
    latchCount,         \* til::latch latch
    consumed,           \* the values the function returned to LoadAll
    environment,        \* defaults.json, the generator outputs, the fragment files
                        \* and the persisted state the first load finds
    settingsFile,       \* settings.json: profile list, globals, and whether it
                        \* is the ToJson() of the settings a load returned
    lastCall,           \* the last call made on the settings object
    operations,         \* number of calls made
    edited,             \* a profile was created since the load
    loaded              \* the active profiles the last load returned, with
                        \* their effective values

\* the variables of a load
loadVars == <<pc, heap, defaultSettings, userSettings, warnings, settingsStringEmpty,
          needToWriteFile, ignoredNamespaces, unparsedDefaultProfile,
          userProfileCount, generatorIndex,
          failedGenerators, invokedGenerators, fragmentFiles, fragmentSettings,
          defaultProfile, stateLoaded, stateStored, stateWritten, allProfiles,
          activeProfiles, loadError, fileWritten>>

\* the variables of _parse run on its own
parserVars == <<content, parsedSettings>>

\* the variables of extractValueFromTaskWithoutMainThreadAwait
latchVars == <<callerAt, coroutineAt, tasks, finalVal, latchCount, consumed>>

\* the variables of the calls made on a loaded settings object
settingsVars == <<environment, settingsFile, lastCall, operations, edited, loaded>>

\* the variables the steps of LoadAll do not touch
otherVars == <<parserVars, latchVars, settingsVars>>

vars == <<loadVars, otherVars>>

ParsedSettings(profileDefaults, profiles, profilesByGuid) ==
    [profileDefaults |-> profileDefaults, profiles |-> profiles,
     profilesByGuid |-> profilesByGuid]

\* no load has run
NotLoaded ==
    /\ pc = "start"
    /\ heap = <<>>
    /\ defaultSettings = ParsedSettings(0, <<>>, EmptyMap)
    /\ userSettings = ParsedSettings(0, <<>>, EmptyMap)
    /\ warnings = <<>>
    /\ settingsStringEmpty = FALSE
    /\ needToWriteFile = FALSE
    /\ ignoredNamespaces = {}
    /\ unparsedDefaultProfile = NoText
    /\ userProfileCount = 0
    /\ generatorIndex = 1
    /\ failedGenerators = {}
    /\ invokedGenerators = {}
    /\ fragmentFiles = <<>>
    /\ fragmentSettings = ParsedSettings(0, <<>>, EmptyMap)
    /\ defaultProfile = NilGuid
    /\ stateLoaded = {}
    /\ stateStored = {}
    /\ stateWritten = FALSE
    /\ allProfiles = <<>>
    /\ activeProfiles = <<>>
    /\ loadError = "none"
    /\ fileWritten = "no"

\* _parse is not under observation
ParserIdle ==
    /\ content = [origin |-> "User", profilesArray |-> <<>>]
    /\ parsedSettings = Catalog(<<>>, <<>>, EmptyMap, <<>>)

\* no async task has been handed out
LatchIdle ==
    /\ callerAt = "idle"
    /\ coroutineAt = 0
    /\ tasks = <<>>
    /\ finalVal = <<>>
    /\ latchCount = 0
    /\ consumed = <<>>

\* a call on the settings object: GetProfileForArgs with its arguments
\* (profile text, index, whether the commandline is not empty, whether the
\* args object is not null, Feature_ShowProfileDefaultsInSettings), or
\* DuplicateProfile with its source; result is the profile returned (0 for
\* nullptr)
NoCall ==
    [op |-> "none", profile |-> NoText, hasIndex |-> FALSE, index |-> 0,
     commandline |-> FALSE, hasArgs |-> FALSE, featureEnabled |-> FALSE,
     source |-> 0, result |-> 0]

\* the globals of a document that sets none
NoGlobals == [disabledProfileSources |-> {}, defaultProfile |-> NoText, defaultsFont |-> Unset]

\* no settings object is in use
SettingsIdle ==
    /\ environment = [defaultJson |-> [defaultsFont |-> Unset, list |-> <<>>],
                      generated |-> <<>>, fragments |-> <<>>, state |-> {}]
    /\ settingsFile = [list |-> <<>>, globals |-> NoGlobals, ofLoad |-> FALSE]
    /\ lastCall = NoCall
    /\ operations = 0
    /\ edited = FALSE
    /\ loaded = <<>>

Init == NotLoaded /\ ParserIdle /\ LatchIdle /\ SettingsIdle

\* ------------------------------------------------------------------------
\* LoadAll, step by step
\* ------------------------------------------------------------------------
\* Lines 761-793: read settings.json (the user template stands in for a
\* missing or empty file), parse defaults.json and the user document.
ParseSettings ==
    /\ pc = "start"
    /\ \E empty \in BOOLEAN,
          defaultJson \in DefaultJsonDocuments,
          userList \in SeqsUpTo(UserObjects, MaxUserProfiles),
          userGlobals \in UserGlobals :
        LET inboxDefaults == parseProfileDefaults(
                JsonProfile(FALSE, NoText, FALSE, NilGuid, FALSE, NilGuid,
                            defaultJson.defaultsFont))
            d == parse(<<inboxDefaults>>, <<>>, "InBox", defaultJson.list)
            userDefaults == parseProfileDefaults(
                JsonProfile(FALSE, NoText, FALSE, NilGuid, FALSE, NilGuid,
                            userGlobals.defaultsFont))
            u == parse(Append(d.heap, userDefaults), d.warnings, "User", userList)
        IN /\ settingsStringEmpty' = empty
           /\ needToWriteFile' = empty
           /\ heap' = u.heap
           /\ warnings' = u.warnings
           /\ defaultSettings' = ParsedSettings(1, d.profiles, d.profilesByGuid)
           /\ userSettings' = ParsedSettings(Len(d.heap) + 1, u.profiles, u.profilesByGuid)
           /\ ignoredNamespaces' = userGlobals.disabledProfileSources
           /\ unparsedDefaultProfile' = userGlobals.defaultProfile
           /\ userProfileCount' = Len(u.profiles)
    /\ pc' = "layerDefaults"
    /\ UNCHANGED <<generatorIndex, failedGenerators, invokedGenerators,
                   fragmentFiles, fragmentSettings, defaultProfile, stateLoaded,
                   stateStored, stateWritten, allProfiles, activeProfiles,
                   loadError, fileWritten>>
    /\ UNCHANGED otherVars

\* the catalog made of the user settings and the current arena
UserCatalog == Catalog(heap, userSettings.profiles, userSettings.profilesByGuid, warnings)

\* Line 796: layer the profiles of defaults.json onto the user's.
LayerDefaults ==
    /\ pc = "layerDefaults"
    /\ LET c == layerGeneratedProfiles(UserCatalog, defaultSettings.profiles) IN
        /\ heap' = c.heap
        /\ warnings' = c.warnings
        /\ userSettings' = ParsedSettings(userSettings.profileDefaults, c.profiles,
                                          c.profilesByGuid)
    /\ pc' = "generate"
    /\ UNCHANGED <<defaultSettings, settingsStringEmpty, needToWriteFile,
                   ignoredNamespaces, unparsedDefaultProfile, userProfileCount, generatorIndex, failedGenerators, invokedGenerators,
                   fragmentFiles, fragmentSettings,
                   defaultProfile, stateLoaded, stateStored, stateWritten,
                   allProfiles, activeProfiles, loadError, fileWritten>>
    /\ UNCHANGED otherVars

\* the profile a generator of namespace ns emits for object o
GeneratedProfile(ns, o) ==
    [NewProfile EXCEPT !.origin = "Generated", !.name = o.name, !.guid = o.guid,
                       !.source = ns, !.font = GeneratedFont]

\* appendGeneratedProfiles reached although the generator threw.
appendGeneratedProfilesAlways(c, generatedProfiles, generatorNamespace, throws) ==
    IF generatorNamespace \in ignoredNamespaces THEN c
    ELSE layerGeneratedProfiles(c, generatedProfiles)

\* Lines 1356-1361 and 1367-1372: appendGeneratedProfiles is reached only
\* if GenerateProfiles did not throw, and layers the output unless the
\* namespace is ignored.
appendGeneratedProfiles(c, generatedProfiles, generatorNamespace, throws) ==
    IF throws \/ generatorNamespace \in ignoredNamespaces THEN c
    ELSE layerGeneratedProfiles(c, generatedProfiles)

\* Lines 1363-1373, the executeGenerator lambda of _generateProfiles: the
\* vector is cleared, the generator fills it (and may throw after it has
\* emitted a profile), and the profiles are layered unless the generator
\* threw or the namespace is ignored.
ExecuteGenerator ==
    /\ pc = "generate"
    /\ generatorIndex <= Len(GeneratorNamespaces)
    /\ LET generatorNamespace == GeneratorNamespaces[generatorIndex] IN
       \E out \in GeneratorOutputs(generatorNamespace) :
       \E throws \in {FALSE, out # <<>>} :
        LET emitted == [i \in 1..Len(out) |-> GeneratedProfile(generatorNamespace, out[i])]
            generatedProfiles == [i \in 1..Len(out) |-> Len(heap) + i]
            h == heap \o emitted
            c == appendGeneratedProfiles(
                     Catalog(h, userSettings.profiles, userSettings.profilesByGuid, warnings),
                     generatedProfiles, generatorNamespace, throws)
        IN /\ heap' = c.heap
           /\ warnings' = c.warnings
           /\ defaultSettings' = [defaultSettings EXCEPT !.profiles = generatedProfiles]
           /\ userSettings' = ParsedSettings(userSettings.profileDefaults, c.profiles,
                                             c.profilesByGuid)
           /\ failedGenerators' = IF throws THEN failedGenerators \cup {generatorNamespace}
                                   ELSE failedGenerators
    /\ invokedGenerators' = invokedGenerators \cup {GeneratorNamespaces[generatorIndex]}
    /\ generatorIndex' = generatorIndex + 1
    /\ pc' = IF generatorIndex = Len(GeneratorNamespaces) THEN "fillBlanks" ELSE "generate"
    /\ UNCHANGED <<settingsStringEmpty, needToWriteFile, ignoredNamespaces, unparsedDefaultProfile,
                   userProfileCount, fragmentFiles, fragmentSettings, defaultProfile, stateLoaded,
                   stateStored, stateWritten, allProfiles, activeProfiles,
                   loadError, fileWritten>>
    /\ UNCHANGED otherVars

\* getDynamicProfiles with a span that starts at the first profile.
getDynamicProfilesFromStart(profiles, count) ==
    [valid |-> Len(profiles) - count >= 0,
     items |-> SubSeq(profiles, 1, Len(profiles) - count)]

\* Lines 789-793, the getDynamicProfiles lambda: gsl::span{ data +
\* userProfileCount, data + size - userProfileCount }, a span given by its
\* first and its past-the-end element.  With fewer than userProfileCount
\* appended profiles the end lies before the start and the contract check
\* of gsl::span terminates the process.
getDynamicProfiles(profiles, count) ==
    [valid |-> Len(profiles) - count >= count,
     items |-> SubSeq(profiles, count + 1, Len(profiles) - count)]

\* Lines 1400-1415: the GUID the default profile of a new file is set to.
RECURSIVE preferredPowershellGuid(_, _)
preferredPowershellGuid(h, generatedProfiles) ==
    IF generatedProfiles = <<>> THEN DEFAULT_WINDOWS_POWERSHELL_GUID
    ELSE IF h[Head(generatedProfiles)].name = PreferredPowershellProfileName
         THEN Guid(h[Head(generatedProfiles)])
         ELSE preferredPowershellGuid(h, Tail(generatedProfiles))

\* Lines 1417-1427: the first profile with the GUID of cmd.exe is renamed.
RECURSIVE localizeCommandPrompt(_, _)
localizeCommandPrompt(h, profiles) ==
    IF profiles = <<>> THEN h
    ELSE IF Guid(h[Head(profiles)]) = DEFAULT_COMMAND_PROMPT_GUID
         THEN [h EXCEPT ![Head(profiles)].name = CommandPromptDisplayName]
         ELSE localizeCommandPrompt(h, Tail(profiles))

\* Lines 805-808 and _fillBlanksInDefaultsJson: only for a new settings.json.
FillBlanksInDefaultsJson ==
    /\ pc = "fillBlanks"
    /\ LET span == getDynamicProfiles(userSettings.profiles, userProfileCount) IN
       IF settingsStringEmpty
       THEN /\ span.valid
            /\ defaultProfile' = preferredPowershellGuid(heap, span.items)
            /\ heap' = localizeCommandPrompt(heap, userSettings.profiles)
       ELSE UNCHANGED <<defaultProfile, heap>>
    /\ pc' = "fragments"
    /\ UNCHANGED <<defaultSettings, userSettings, warnings, settingsStringEmpty,
                   needToWriteFile, ignoredNamespaces, unparsedDefaultProfile, userProfileCount,
                   generatorIndex, failedGenerators, invokedGenerators,
                   fragmentFiles, fragmentSettings, stateLoaded, stateStored,
                   stateWritten, allProfiles, activeProfiles, loadError, fileWritten>>
    /\ UNCHANGED otherVars

\* Lines 813-848, parseAndLayerFragmentFiles for one file of a publisher
\* that is not ignored: the file is parsed into fragmentSettings and its
\* profiles are layered.
ParseAndLayerFragmentFile ==
    /\ pc = "fragments"
    /\ Len(fragmentFiles) < MaxFragmentFiles
    /\ FragmentPublisher \notin ignoredNamespaces
    /\ \E fragmentList \in FragmentFileLists :
        LET f == parse(heap, warnings, "Fragment", fragmentList)
            c == layerFragmentProfiles(
                     Catalog(f.heap, userSettings.profiles,
                             userSettings.profilesByGuid, f.warnings),
                     f.profiles, FragmentPublisher)
        IN /\ fragmentFiles' = Append(fragmentFiles, fragmentList)
           /\ fragmentSettings' = ParsedSettings(0, f.profiles, f.profilesByGuid)
           /\ heap' = c.heap
           /\ warnings' = c.warnings
           /\ userSettings' = ParsedSettings(userSettings.profileDefaults, c.profiles,
                                             c.profilesByGuid)
    /\ UNCHANGED <<pc, defaultSettings, settingsStringEmpty, needToWriteFile,
                   ignoredNamespaces, unparsedDefaultProfile, userProfileCount, generatorIndex,
                   failedGenerators, invokedGenerators, defaultProfile,
                   stateLoaded, stateStored, stateWritten, allProfiles,
                   activeProfiles, loadError, fileWritten>>
    /\ UNCHANGED otherVars

\* The loop of lines 909-912 with InsertParent(profileDefaults): the record
\* becomes the last parent.
RECURSIVE insertProfileDefaultsLast(_, _, _)
insertProfileDefaultsLast(h, profiles, profileDefaults) ==
    IF profiles = <<>> THEN h
    ELSE insertProfileDefaultsLast(InsertParent(h, Head(profiles), profileDefaults),
                                   Tail(profiles), profileDefaults)

\* Lines 909-912: profiles.defaults becomes the first parent of every
\* profile of the user catalog.
RECURSIVE insertProfileDefaults(_, _, _)
insertProfileDefaults(h, profiles, profileDefaults) ==
    IF profiles = <<>> THEN h
    ELSE insertProfileDefaults(InsertParentAt0(h, Head(profiles), profileDefaults),
                               Tail(profiles), profileDefaults)

LayerProfileDefaults ==
    /\ pc = "fragments"
    /\ heap' = insertProfileDefaults(heap, userSettings.profiles,
                                     userSettings.profileDefaults)
    /\ pc' = "disableDeleted"
    /\ UNCHANGED <<defaultSettings, userSettings, warnings, settingsStringEmpty,
                   needToWriteFile, ignoredNamespaces, unparsedDefaultProfile, userProfileCount,
                   generatorIndex, failedGenerators, invokedGenerators,
                   fragmentFiles, fragmentSettings, defaultProfile, stateLoaded,
                   stateStored, stateWritten, allProfiles, activeProfiles,
                   loadError, fileWritten>>
    /\ UNCHANGED otherVars

\* Lines 919-936: every profile of the span whose GUID is already in
\* generatedProfileIds is marked deleted and hidden; the other GUIDs are
\* added to the set.
RECURSIVE disableDeletedProfiles(_, _)
disableDeletedProfiles(r, profiles) ==
    IF profiles = <<>> THEN r
    ELSE LET profile == Head(profiles)
             guid == Guid(r.heap[profile])
         IN
         IF guid \notin r.generatedProfileIds
         THEN disableDeletedProfiles(
                  [r EXCEPT !.generatedProfileIds = @ \cup {guid},
                            !.newGeneratedProfiles = TRUE],
                  Tail(profiles))
         ELSE disableDeletedProfiles(
                  [r EXCEPT !.heap[profile].deleted = TRUE,
                            !.heap[profile].hidden = TRUE],
                  Tail(profiles))

\* Lines 914-942: the block that hides the generated profiles the user
\* removed from settings.json and stores the GUIDs seen for the first time.
DisableDeletedProfiles ==
    /\ pc = "disableDeleted"
    /\ LET span == getDynamicProfiles(userSettings.profiles, userProfileCount) IN
       /\ span.valid
       /\ \E state \in PersistedStates :
            LET r == disableDeletedProfiles(
                         [heap |-> heap, generatedProfileIds |-> state,
                          newGeneratedProfiles |-> FALSE],
                         span.items)
            IN /\ heap' = r.heap
               /\ stateLoaded' = state
               /\ stateWritten' = r.newGeneratedProfiles
               /\ stateStored' = IF r.newGeneratedProfiles
                                 THEN r.generatedProfileIds ELSE state
    /\ pc' = "finalize"
    /\ UNCHANGED <<defaultSettings, userSettings, warnings, settingsStringEmpty,
                   needToWriteFile, ignoredNamespaces, unparsedDefaultProfile, userProfileCount,
                   generatorIndex, failedGenerators, invokedGenerators,
                   fragmentFiles, fragmentSettings, defaultProfile, allProfiles,
                   activeProfiles, loadError, fileWritten>>
    /\ UNCHANGED otherVars

\* The contract check of gsl::span (a span whose end lies before its start)
\* terminates the process where getDynamicProfiles() is iterated: in
\* _fillBlanksInDefaultsJson (line 807) and in the loop of line 919.
ContractViolation ==
    /\ \/ pc = "fillBlanks" /\ settingsStringEmpty
       \/ pc = "disableDeleted"
    /\ ~getDynamicProfiles(userSettings.profiles, userProfileCount).valid
    /\ pc' = "terminated"
    /\ UNCHANGED <<heap, defaultSettings, userSettings, warnings, settingsStringEmpty,
                   needToWriteFile, ignoredNamespaces, unparsedDefaultProfile, userProfileCount,
                   generatorIndex, failedGenerators, invokedGenerators,
                   fragmentFiles, fragmentSettings, defaultProfile, stateLoaded,
                   stateStored, stateWritten, allProfiles, activeProfiles,
                   loadError, fileWritten>>
    /\ UNCHANGED otherVars

\* the profiles of ps that are not hidden, in order
RECURSIVE nonHidden(_, _)
nonHidden(h, ps) ==
    IF ps = <<>> THEN <<>>
    ELSE IF h[Head(ps)].hidden THEN nonHidden(h, Tail(ps))
         ELSE <<Head(ps)>> \o nonHidden(h, Tail(ps))

\* the GUIDs of the profiles of ps
GuidsOf(h, ps) == {Guid(h[ps[i]]) : i \in 1..Len(ps)}

\* the GUID of the first profile of ps named name, NilGuid if there is none
RECURSIVE guidOfFirstNamed(_, _, _)
guidOfFirstNamed(h, ps, name) ==
    IF ps = <<>> THEN NilGuid
    ELSE IF h[Head(ps)].name = name THEN Guid(h[Head(ps)])
         ELSE guidOfFirstNamed(h, Tail(ps), name)

\* _validateAllSchemesExist without the check of the unfocused appearance.
RECURSIVE validateAllSchemesExistFocused(_, _)
validateAllSchemesExistFocused(r, ps) ==
    IF ps = <<>> THEN r
    ELSE LET profile == Head(ps)
             invalid == ColorSchemeName(r.heap, profile, "colorScheme") \notin ColorSchemes
             h1 == IF invalid THEN [r.heap EXCEPT ![profile].colorScheme = Cleared]
                   ELSE r.heap
         IN validateAllSchemesExistFocused(
                [heap |-> h1, foundInvalidScheme |-> r.foundInvalidScheme \/ invalid],
                Tail(ps))

\* The loop of CascadiaSettings::_validateAllSchemesExist: the color scheme
\* name of the default appearance, and of the unfocused appearance if there
\* is one, is cleared on the profile if it is no key of the color schemes.
RECURSIVE validateAllSchemesExist(_, _)
validateAllSchemesExist(r, ps) ==
    IF ps = <<>> THEN r
    ELSE LET profile == Head(ps)
             invalid == ColorSchemeName(r.heap, profile, "colorScheme") \notin ColorSchemes
             h1 == IF invalid THEN [r.heap EXCEPT ![profile].colorScheme = Cleared]
                   ELSE r.heap
             invalidUnfocused ==
                 /\ HasUnfocusedAppearance(h1, profile)
                 /\ ColorSchemeName(h1, profile, "unfocusedScheme") \notin ColorSchemes
             h2 == IF invalidUnfocused THEN [h1 EXCEPT ![profile].unfocusedScheme = Cleared]
                   ELSE h1
         IN validateAllSchemesExist(
                [heap |-> h2,
                 foundInvalidScheme |-> r.foundInvalidScheme \/ invalid \/ invalidUnfocused],
                Tail(ps))

\* CascadiaSettings::_GetProfileGuidByName: a GUID string that is the GUID
\* of a profile, else the GUID of the first profile of that name, else
\* nothing (NilGuid, as til::coalesce_value makes of it at line 1465).
GetProfileGuidByName(h, ps, name) ==
    IF name = NoText THEN NilGuid
    ELSE IF name \in GuidStrings /\ GuidFromString(name) \in GuidsOf(h, ps)
         THEN GuidFromString(name)
         ELSE guidOfFirstNamed(h, ps, name)

\* CascadiaSettings::_ResolveDefaultProfile: the value of
\* globals->DefaultProfile() afterwards.
ResolveDefaultProfile(h, ps, unparsed, current) ==
    IF unparsed # NoText THEN GetProfileGuidByName(h, ps, unparsed) ELSE current

\* _validateDefaultProfileExists that accepts every GUID that is not nil.
validateDefaultProfileExistsNotNil(h, ps, defaultProfileGuid) ==
    LET missing == defaultProfileGuid = NilGuid IN
    [missing |-> missing,
     defaultProfile |-> IF missing THEN Guid(h[ps[1]]) ELSE defaultProfileGuid]

\* CascadiaSettings::_validateDefaultProfileExists: whether the warning is
\* appended, and the value of globals->DefaultProfile() afterwards.
validateDefaultProfileExists(h, ps, defaultProfileGuid) ==
    LET missing == defaultProfileGuid = NilGuid \/ defaultProfileGuid \notin GuidsOf(h, ps) IN
    [missing |-> missing,
     defaultProfile |-> IF missing THEN Guid(h[ps[1]]) ELSE defaultProfileGuid]

\* Lines 944-997: the defaults of defaults.json become the parent of the
\* user's profiles.defaults, the profile lists are built, _FinalizeSettings
\* (_UpdateActiveProfiles) and _validateSettings run, and the settings are
\* written back if needToWriteFile.  A SettingsException (lines 998-1003)
\* returns a fresh settings object that carries only the error.
FinishLoad ==
    /\ pc = "finalize"
    /\ LET h == InsertParent(heap, userSettings.profileDefaults,
                             defaultSettings.profileDefaults)
           all == userSettings.profiles
           active == nonHidden(h, all)
           resolved == ResolveDefaultProfile(h, all, unparsedDefaultProfile, defaultProfile)
           default == validateDefaultProfileExists(h, all, resolved)
           withDefault == IF default.missing THEN Append(warnings, "MissingDefaultProfile")
                          ELSE warnings
           schemes == validateAllSchemesExist([heap |-> h, foundInvalidScheme |-> FALSE], all)
           validated == IF schemes.foundInvalidScheme
                        THEN Append(withDefault, "UnknownColorScheme")
                        ELSE withDefault
       IN
       /\ IF active = <<>>
          THEN \* _UpdateActiveProfiles throws before _validateProfilesExist runs
               /\ heap' = h
               /\ loadError' = "AllProfilesHidden"
               /\ allProfiles' = <<>>
               /\ activeProfiles' = <<>>
               /\ warnings' = <<>>
               /\ UNCHANGED <<defaultProfile, fileWritten>>
               /\ pc' = "failed"
          ELSE /\ heap' = schemes.heap
               /\ loadError' = "none"
               /\ allProfiles' = all
               /\ activeProfiles' = active
               /\ defaultProfile' = default.defaultProfile
               /\ IF needToWriteFile
                  THEN \E written \in BOOLEAN :
                         /\ fileWritten' = IF written THEN "written" ELSE "failed"
                         /\ warnings' = IF written THEN validated
                                        ELSE Append(validated, "FailedToWriteToSettings")
                  ELSE /\ fileWritten' = "no"
                       /\ warnings' = validated
               /\ pc' = "done"
    /\ UNCHANGED <<defaultSettings, userSettings, settingsStringEmpty, needToWriteFile,
                   ignoredNamespaces, unparsedDefaultProfile, userProfileCount, generatorIndex, failedGenerators, invokedGenerators,
                   fragmentFiles, fragmentSettings,
                   stateLoaded, stateStored, stateWritten>>
    /\ UNCHANGED otherVars

Next ==
    \/ ParseSettings
    \/ LayerDefaults
    \/ ExecuteGenerator
    \/ FillBlanksInDefaultsJson
    \/ ParseAndLayerFragmentFile
    \/ LayerProfileDefaults
    \/ DisableDeletedProfiles
    \/ ContractViolation
    \/ FinishLoad

Spec == Init /\ [][Next]_vars

\* ------------------------------------------------------------------------
\* Properties
\* ------------------------------------------------------------------------
\* x occurs in the sequence q
InSeq(x, q) == \E i \in 1..Len(q) : q[i] = x

\* the load returned a settings object without a load error
LoadSucceeded == pc = "done"

\* the block of lines 914-942 has run
ReHideDone == pc \in {"finalize", "done", "failed"}

\* the positions of the catalog that hold profiles the user file did not
\* declare
AppendedPositions == (userProfileCount + 1)..Len(userSettings.profiles)

\* c is a parent of some profile
IsParent(c) == \E x \in 1..Len(heap) : InSeq(c, heap[x].parents)

\* the fragment profiles that carry `updates`
FragmentOverlays == {c \in 1..Len(heap) : heap[c].updates # NilGuid}

\* the candidates the step hands to the layering code: the profiles of
\* defaults.json (line 796), the output of a generator that neither threw
\* nor is ignored (line 1359), the profiles of a fragment file (line 823)
LayeredCandidates ==
    IF pc = "layerDefaults" THEN defaultSettings.profiles
    ELSE IF /\ pc = "generate"
            /\ GeneratorNamespaces[generatorIndex] \notin ignoredNamespaces
            /\ GeneratorNamespaces[generatorIndex] \notin failedGenerators'
         THEN defaultSettings'.profiles
    ELSE IF pc = "fragments" /\ pc' = "fragments" THEN fragmentSettings'.profiles
    ELSE <<>>

\* C1: re-hide after delete.  After a successful load every generated
\* profile that the user file does not declare and whose GUID was in the
\* persisted generatedProfiles set is in allProfiles with hidden and deleted
\* set and is not in activeProfiles, whatever the number of user profiles
\* and its position.
C1_ReHideAfterDelete ==
    LoadSucceeded =>
        \A i \in AppendedPositions :
            LET p == userSettings.profiles[i] IN
            (heap[p].origin = "Generated" /\ Guid(heap[p]) \in stateLoaded)
                => /\ heap[p].hidden
                   /\ heap[p].deleted
                   /\ InSeq(p, allProfiles)
                   /\ ~InSeq(p, activeProfiles)

\* a published generated profile whose GUID was not in the persisted set
NewGeneratedGuidDiscovered ==
    \E i \in AppendedPositions :
        /\ heap[userSettings.profiles[i]].origin = "Generated"
        /\ Guid(heap[userSettings.profiles[i]]) \notin stateLoaded

\* C2: a successful load writes the settings back exactly when the settings
\* file was missing or empty or a generated GUID was discovered that was
\* not in the persisted generatedProfiles set.
C2_WriteBackExactlyWhenNewOrDiscovered ==
    LoadSucceeded =>
        ((fileWritten # "no") <=> (settingsStringEmpty \/ NewGeneratedGuidDiscovered))

C4_NewGeneratedGuidsRecorded ==
    ReHideDone =>
        /\ \A i \in AppendedPositions :
              LET p == userSettings.profiles[i] IN
              (heap[p].origin = "Generated" /\ Guid(heap[p]) \notin stateLoaded)
                  => Guid(heap[p]) \in stateStored /\ ~heap[p].deleted
        /\ stateWritten <=> stateStored # stateLoaded

\* C5: catalog coherence.  At every step profilesByGuid has exactly one key
\* for each entry of the profile list and maps it to the very profile of
\* the list.
C5_CatalogCoherent ==
    /\ DOMAIN userSettings.profilesByGuid = GuidsOf(heap, userSettings.profiles)
    /\ Cardinality(DOMAIN userSettings.profilesByGuid) = Len(userSettings.profiles)
    /\ \A i \in 1..Len(userSettings.profiles) :
          userSettings.profilesByGuid[Guid(heap[userSettings.profiles[i]])]
              = userSettings.profiles[i]

\* C6: match-and-layer.  A candidate without `updates` whose GUID is in the
\* catalog becomes the last parent of the catalog entry with that GUID, the
\* profile list is unchanged and no warning is recorded.
C6_MatchAndLayer ==
    [][\A k \in 1..Len(LayeredCandidates) :
          LET c == LayeredCandidates[k]
              guid == Guid(heap'[c])
          IN (heap'[c].updates = NilGuid /\ guid \in GuidsOf(heap, userSettings.profiles))
             => /\ \E i \in 1..Len(userSettings.profiles) :
                      LET e == userSettings.profiles[i] IN
                      /\ Guid(heap[e]) = guid
                      /\ heap'[e].parents = Append(heap[e].parents, c)
                /\ userSettings'.profiles = userSettings.profiles
                /\ warnings' = warnings]_vars

\* C7: update overlay.  A fragment candidate whose `updates` is a GUID of
\* the catalog is inserted at index 0 of the parents of the catalog entry
\* with that GUID and the profile list does not grow.
C7_UpdateOverlay ==
    [][\A k \in 1..Len(LayeredCandidates) :
          LET c == LayeredCandidates[k]
              updates == heap'[c].updates
          IN (updates # NilGuid /\ updates \in DOMAIN userSettings.profilesByGuid)
             => /\ \E i \in 1..Len(userSettings.profiles) :
                      LET e == userSettings.profiles[i] IN
                      /\ Guid(heap[e]) = updates
                      /\ heap'[e].parents = <<c>> \o heap[e].parents
                /\ Len(userSettings'.profiles) = Len(userSettings.profiles)]_vars

\* C8 as stated: a fragment candidate whose `updates` names no GUID of the
\* catalog falls through: it ends as a parent of the catalog entry that has
\* its own GUID (layered onto it, or reproduced as it).
C8_UnmatchedUpdateFallsThrough ==
    \A c \in FragmentOverlays :
        heap[c].updates \notin DOMAIN userSettings.profilesByGuid
            => \E i \in 1..Len(userSettings.profiles) :
                  LET e == userSettings.profiles[i] IN
                  Guid(heap[e]) = Guid(heap[c]) /\ InSeq(c, heap[e].parents)

\* C8 as amended: a fragment candidate whose `updates` names no GUID of the
\* catalog is discarded: it is neither layered onto the entry with its own
\* GUID nor reproduced.  A candidate with `updates` is a parent of the
\* profile indexed under its `updates` GUID and of no other profile.
C8_UnmatchedUpdateDiscarded ==
    \A c \in FragmentOverlays :
        \A x \in 1..Len(heap) :
            InSeq(c, heap[x].parents)
                => /\ heap[c].updates \in DOMAIN userSettings.profilesByGuid
                   /\ x = userSettings.profilesByGuid[heap[c].updates]

\* C8 witness: a load ended after a fragment candidate was read whose
\* `updates` names no GUID of the catalog while its own GUID is one of the
\* catalog.
C8_Witness ==
    /\ LoadSucceeded
    /\ \E c \in FragmentOverlays :
          /\ heap[c].updates \notin DOMAIN userSettings.profilesByGuid
          /\ Guid(heap[c]) \in GuidsOf(heap, userSettings.profiles)

\* C9: a fragment profile object with `updates` and a setting but without
\* name and guid is applied as an overlay: after a successful load the
\* setting has the fragment's value on the user profile it updates if that
\* profile does not set it itself.
C9_NamelessOverlayApplied ==
    LoadSucceeded =>
        \A f \in 1..Len(fragmentFiles) : \A k \in 1..Len(fragmentFiles[f]) :
            LET o == fragmentFiles[f][k] IN
            (~o.hasName /\ ~o.hasGuid /\ o.updates # NilGuid /\ o.font # Unset)
                => \A i \in 1..userProfileCount :
                      LET t == userSettings.profiles[i] IN
                      (Guid(heap[t]) = o.updates /\ heap[t].font = Unset)
                          => EffectiveFont(heap, t) = o.font

\* C10: fragment precedence.  After a successful load, on a profile with an
\* attached fragment overlay a setting the fragment sets and the profile
\* does not set itself resolves to the fragment's value, whatever
\* profiles.defaults, the built-in defaults and the generated or in-box
\* record of the profile set.
C10_FragmentPrecedence ==
    LoadSucceeded =>
        \A c \in FragmentOverlays :
            (IsParent(c) /\ heap[c].font # Unset)
                => \A i \in 1..Len(userSettings.profiles) :
                      LET e == userSettings.profiles[i] IN
                      (Guid(heap[e]) = heap[c].updates /\ heap[e].font = Unset)
                          => EffectiveFont(heap, e) = heap[c].font

\* the positions a step added to the profile list of the catalog
NewPositions == (Len(userSettings.profiles) + 1)..Len(userSettings'.profiles)

\* C11: reproduce-and-publish.  For every candidate c without `updates`
\* whose GUID is not in the catalog the step appends exactly one new profile
\* at the end of the profile list: it has the origin, name, guid, hidden and
\* source of c, declares no setting of its own and has c as its only parent;
\* c itself is not placed in the list and the older entries keep their place.
C11_ReproduceAndPublish ==
    [][\A k \in 1..Len(LayeredCandidates) :
          LET c == LayeredCandidates[k]
              guid == Guid(heap'[c])
              published == {i \in NewPositions :
                              InSeq(c, heap'[userSettings'.profiles[i]].parents)}
          IN (/\ heap'[c].updates = NilGuid
              /\ guid \notin GuidsOf(heap, userSettings.profiles)
              /\ \A j \in 1..(k - 1) : Guid(heap'[LayeredCandidates[j]]) # guid)
             => /\ Cardinality(published) = 1
                /\ \A i \in published :
                      LET e == userSettings'.profiles[i] IN
                      /\ e \notin 1..Len(heap)
                      /\ e # c
                      /\ heap'[e] = [NewProfile EXCEPT !.origin = heap'[c].origin,
                                                       !.name = heap'[c].name,
                                                       !.guid = guid,
                                                       !.hidden = heap'[c].hidden,
                                                       !.source = heap'[c].source,
                                                       !.parents = <<c>>]
                /\ ~InSeq(c, userSettings'.profiles)
                /\ SubSeq(userSettings'.profiles, 1, Len(userSettings.profiles))
                       = userSettings.profiles]_vars

\* C11 witness: a load ended in which a generated profile and a profile of a
\* fragment were reproduced and published behind the user's profiles.
C11_Witness ==
    /\ LoadSucceeded
    /\ userProfileCount > 0
    /\ \E i, j \in AppendedPositions :
          /\ heap[userSettings.profiles[i]].origin = "Generated"
          /\ heap[userSettings.profiles[j]].origin = "Fragment"
          /\ heap[userSettings.profiles[j]].source = FragmentPublisher
          /\ heap[userSettings.profiles[j]].hidden
          /\ ~heap[userSettings.profiles[j]].deleted

\* the loop of lines 909-912 has run
ProfileDefaultsLayered == pc \in {"disableDeleted", "finalize", "done"}

\* the number of occurrences of x in the sequence q
Occurrences(x, q) == Cardinality({i \in 1..Len(q) : q[i] = x})

\* C12: after the layering every profile of the catalog (declared by the
\* user, reproduced, with or without a fragment overlay) has the user's
\* profiles.defaults record as the first element of its parent sequence,
\* and that record occurs exactly once in the sequence.
C12_ProfileDefaultsFirstParent ==
    ProfileDefaultsLayered =>
        \A i \in 1..Len(userSettings.profiles) :
            LET parents == heap[userSettings.profiles[i]].parents IN
            /\ parents # <<>>
            /\ Head(parents) = userSettings.profileDefaults
            /\ Occurrences(userSettings.profileDefaults, parents) = 1

\* C12 witness: a load ended whose catalog holds a user profile with a
\* fragment overlay, a reproduced generated profile and a reproduced profile
\* of a fragment or of defaults.json.
C12_Witness ==
    /\ LoadSucceeded
    /\ \E i \in 1..userProfileCount :
          \E c \in FragmentOverlays : InSeq(c, heap[userSettings.profiles[i]].parents)
    /\ \E i \in AppendedPositions : heap[userSettings.profiles[i]].origin = "Generated"
    /\ \E i \in AppendedPositions : heap[userSettings.profiles[i]].origin = "InBox"

\* the place of a profile in the order of the sources: the user file, then
\* defaults.json, the generators in registration order and the fragments
SourceRank(p) ==
    IF p.origin = "User" THEN 1
    ELSE IF p.origin = "InBox" THEN 2
    ELSE IF p.origin = "Generated"
         THEN 2 + (CHOOSE g \in 1..Len(GeneratorNamespaces) : GeneratorNamespaces[g] = p.source)
    ELSE 3 + Len(GeneratorNamespaces)

\* the candidates without `updates` that were handed to the layering code:
\* the profiles of defaults.json, of the generators that neither threw nor
\* are ignored, and of the fragment files
LayeredSoFar ==
    {c \in 1..Len(heap) :
        /\ heap[c].origin \in {"InBox", "Generated", "Fragment"}
        /\ heap[c].updates = NilGuid
        /\ heap[c].source \notin (failedGenerators \cup ignoredNamespaces)
        /\ ~InSeq(c, userSettings.profiles)}

\* the list is ordered by source and, within a source, by creation
OrderedBySource(profiles) ==
    \A i, j \in 1..Len(profiles) :
        i < j => /\ SourceRank(heap[profiles[i]]) <= SourceRank(heap[profiles[j]])
                 /\ profiles[i] < profiles[j]
                 /\ Guid(heap[profiles[i]]) # Guid(heap[profiles[j]])

\* C13: after a successful load allProfiles holds the user's profiles in
\* file order, then the profiles published from the generators in
\* registration order, then those published from the fragments in traversal
\* order; a candidate whose GUID repeats an earlier entry adds no entry and
\* is folded into (is a parent of) the earliest entry with that GUID.
C13_OrderAndFold ==
    LoadSucceeded =>
        /\ OrderedBySource(allProfiles)
        /\ \A c \in LayeredSoFar :
              \E i \in 1..Len(allProfiles) :
                  /\ Guid(heap[allProfiles[i]]) = Guid(heap[c])
                  /\ InSeq(c, heap[allProfiles[i]].parents)

\* the order of allProfiles alone
OrderedAllProfiles == LoadSucceeded => OrderedBySource(allProfiles)

\* the profiles _parse made of the objects of settings.json, listed or not
UserParsed == {p \in 1..Len(heap) : heap[p].origin = "User"}

\* n DuplicateProfile warnings
DuplicateWarnings(n) == [i \in 1..n |-> "DuplicateProfile"]

\* the calls of _append while settings.json is parsed: the first profile of
\* each GUID is listed and indexed, each later one only adds a warning
AppendWhileParsing ==
    pc = "start" =>
        /\ \A p \in UserParsed' :
              InSeq(p, userSettings'.profiles)
                  <=> ~\E q \in UserParsed' : q < p /\ Guid(heap'[q]) = Guid(heap'[p])
        /\ \A i \in 1..Len(userSettings'.profiles) :
              LET p == userSettings'.profiles[i] IN
              /\ p \in UserParsed'
              /\ Guid(heap'[p]) \in DOMAIN userSettings'.profilesByGuid
              /\ userSettings'.profilesByGuid[Guid(heap'[p])] = p
              /\ \A j \in 1..(i - 1) : userSettings'.profiles[j] < p
        /\ Cardinality(DOMAIN userSettings'.profilesByGuid) = Len(userSettings'.profiles)
        /\ warnings' = DuplicateWarnings(Cardinality(UserParsed') - Len(userSettings'.profiles))

\* the calls of _append for the reproductions of the profiles of a fragment
\* file: list and index keep what they hold, a new GUID is listed and
\* indexed, a known one only adds a warning
AppendWhileLayeringFragments ==
    (pc = "fragments" /\ pc' = "fragments") =>
        LET candidates == {c \in {fragmentSettings'.profiles[k] :
                                      k \in 1..Len(fragmentSettings'.profiles)} :
                              heap'[c].updates = NilGuid}
        IN
        /\ SubSeq(userSettings'.profiles, 1, Len(userSettings.profiles))
               = userSettings.profiles
        /\ \A g \in DOMAIN userSettings.profilesByGuid :
              /\ g \in DOMAIN userSettings'.profilesByGuid
              /\ userSettings'.profilesByGuid[g] = userSettings.profilesByGuid[g]
        /\ \A c \in candidates :
              LET guid == Guid(heap'[c]) IN
              /\ guid \in DOMAIN userSettings'.profilesByGuid
              /\ guid \notin DOMAIN userSettings.profilesByGuid
                    => \E i \in NewPositions :
                          /\ userSettings'.profiles[i] = userSettings'.profilesByGuid[guid]
                          /\ heap'[userSettings'.profiles[i]].parents = <<c>>
        /\ Cardinality(DOMAIN userSettings'.profilesByGuid)
               = Cardinality(DOMAIN userSettings.profilesByGuid) + Cardinality(NewPositions)
        /\ warnings' = warnings \o
               DuplicateWarnings(Cardinality(candidates) - Cardinality(NewPositions))

\* of the profiles of settings.json that share a GUID exactly one is in
\* allProfiles
OnePerUserGuid ==
    \A p \in UserParsed :
        Cardinality({i \in 1..Len(allProfiles) :
                        /\ allProfiles[i] \in UserParsed
                        /\ Guid(heap[allProfiles[i]]) = Guid(heap[p])}) = 1

\* C14: _append called with a profile whose GUID is already indexed leaves
\* the list and the index unchanged and appends exactly one DuplicateProfile
\* warning; with a new GUID the profile is listed and indexed and no warning
\* is added.  Hence of two profiles of settings.json that share a GUID
\* exactly one is in allProfiles after a successful load.
C14_AppendRejectsDuplicateGuid ==
    [][/\ AppendWhileParsing
       /\ AppendWhileLayeringFragments
       /\ LoadSucceeded' => OnePerUserGuid']_vars

\* C14 witness: a load ended whose settings.json held two profiles with the
\* same GUID, and in which the reproduction of a fragment profile was
\* rejected as well.
C14_Witness ==
    /\ LoadSucceeded
    /\ Cardinality(UserParsed) > userProfileCount
    /\ Cardinality({i \in 1..Len(warnings) : warnings[i] = "DuplicateProfile"}) = 2

\* no profile with source ns is in the catalog or a parent of a profile
NothingLayeredFrom(ns) ==
    \A c \in 1..Len(heap) :
        heap[c].source = ns => ~InSeq(c, userSettings.profiles) /\ ~IsParent(c)

\* C15: a generator whose namespace is in disabledProfileSources is skipped
\* entirely: its GenerateProfiles is not invoked during the load and none of
\* its profiles is added to the catalog or layered as a parent.
C15_DisabledGeneratorSkipped ==
    \A ns \in ignoredNamespaces :
        ns \notin invokedGenerators /\ NothingLayeredFrom(ns)

\* the part of C15 about the catalog alone
DisabledGeneratorNotLayered == \A ns \in ignoredNamespaces : NothingLayeredFrom(ns)

\* the profiles the generators emitted (their reproductions declare no
\* setting of their own)
Emitted == {c \in 1..Len(heap) : heap[c].origin = "Generated" /\ heap[c].font # Unset}

\* the generators have all been run
GeneratorsDone == pc \notin {"start", "layerDefaults", "generate"}

\* what holds of the catalog whatever generator threw: nothing a throwing
\* generator emitted is in the catalog or a parent, everything the others
\* emitted (unless ignored) was layered, and every generator was invoked
FaultsIsolated ==
    /\ \A ns \in failedGenerators : NothingLayeredFrom(ns)
    /\ \A c \in Emitted :
          heap[c].source \notin (failedGenerators \cup ignoredNamespaces) => IsParent(c)
    /\ GeneratorsDone =>
          invokedGenerators = {GeneratorNamespaces[g] : g \in 1..Len(GeneratorNamespaces)}

\* C16: generator fault isolation.  A generator that throws does not fail
\* the load: the step leaves the catalog, the warnings and every existing
\* profile as they were and the load goes on with the next generator, whose
\* profiles are layered; no profile the throwing generator emitted before
\* the exception is layered, in that step or in a later one.
C16_GeneratorFaultIsolation ==
    [][/\ pc = "generate" => pc' \in {"generate", "fillBlanks"}
       /\ failedGenerators' # failedGenerators
             => /\ userSettings' = userSettings
                /\ warnings' = warnings
                /\ SubSeq(heap', 1, Len(heap)) = heap
                /\ loadError' = "none"
       /\ FaultsIsolated']_vars

\* C16 witness: a load ended in which the second generator threw after it
\* had emitted a profile, and the profiles of the first and of the third
\* generator are in the catalog.
C16_Witness ==
    /\ LoadSucceeded
    /\ WslDistroNamespace \in failedGenerators
    /\ \E c \in Emitted : heap[c].source = WslDistroNamespace
    /\ \E i, j \in AppendedPositions :
          /\ heap[userSettings.profiles[i]].source = PowershellCoreNamespace
          /\ heap[userSettings.profiles[j]].source = AzureCloudShellNamespace

\* LoadAll returned a settings object, with or without a load error
LoadReturned == pc \in {"done", "failed"}

\* every profile of the catalog is hidden (so is an empty catalog)
AllHidden == \A i \in 1..Len(userSettings.profiles) : heap[userSettings.profiles[i]].hidden

\* C17: if the resolved catalog holds no profile at all, the load ends with
\* the fatal load error NoProfiles.
C17_EmptyCatalogIsNoProfiles ==
    (LoadReturned /\ userSettings.profiles = <<>>) => loadError = "NoProfiles"

\* the load stopped in the loop of line 919, after the catalog was resolved
\* (with a new settings.json an invalid span stops it at line 807 already)
StoppedAfterLayering == pc = "terminated" /\ ~settingsStringEmpty

\* what LoadAll returns when every profile is hidden
AllHiddenOutcome ==
    /\ pc = "failed"
    /\ loadError = "AllProfilesHidden"
    /\ allProfiles = <<>>
    /\ activeProfiles = <<>>
    /\ warnings = <<>>
    /\ fileWritten = "no"

\* C18: if the resolved catalog is not empty and every profile of it is
\* hidden, LoadAll returns a settings object with the load error
\* AllProfilesHidden, empty allProfiles and activeProfiles and no warnings,
\* and the settings file is not written.
C18_AllHiddenIsFatal ==
    ((LoadReturned \/ StoppedAfterLayering) /\ userSettings.profiles # <<>> /\ AllHidden)
        => AllHiddenOutcome

\* the same for the loads that return
AllHiddenIsFatalWhenReturned ==
    (LoadReturned /\ userSettings.profiles # <<>> /\ AllHidden) => AllHiddenOutcome

\* the number of warnings w recorded
WarningCount(w) == Cardinality({i \in 1..Len(warnings) : warnings[i] = w})

\* the profiles of allProfiles the configured default profile names: by its
\* GUID if the configured text is a GUID string of a profile, else by its
\* name; with no text configured, by the GUID the globals hold (the one a
\* new settings.json is given at line 1414)
ConfiguredDefaultProfiles(h, all, unparsed, configuredGuid) ==
    LET byGuid == {i \in 1..Len(all) :
                      /\ unparsed \in GuidStrings
                      /\ Guid(h[all[i]]) = GuidFromString(unparsed)}
        byName == {i \in 1..Len(all) : h[all[i]].name = unparsed}
        held == {i \in 1..Len(all) : Guid(h[all[i]]) = configuredGuid}
    IN IF unparsed = NoText THEN held
       ELSE IF byGuid # {} THEN byGuid ELSE byName

SchemeIsKey(h, p, key) == ColorSchemeName(h, p, key) \in ColorSchemes

\* C20: after validation no profile of allProfiles refers, in its default
\* or in its unfocused appearance, to a color scheme name that is no key of
\* globals.colorSchemes: each such reference is cleared on that profile (and
\* no other setting is touched), and the UnknownColorScheme warning is
\* recorded exactly once if a reference was cleared and not at all
\* otherwise.
C20_UnknownColorSchemesCleared ==
    [][(pc = "finalize" /\ LoadSucceeded') =>
          /\ \A i \in 1..Len(allProfiles') :
                LET p == allProfiles'[i] IN
                /\ \A key \in {"colorScheme", "unfocusedScheme"} :
                      /\ SchemeIsKey(heap', p, key)
                      /\ heap'[p][key] = IF SchemeIsKey(heap, p, key) THEN heap[p][key]
                                         ELSE Cleared
                /\ heap'[p] = [heap[p] EXCEPT !.colorScheme = heap'[p].colorScheme,
                                              !.unfocusedScheme = heap'[p].unfocusedScheme]
          /\ Cardinality({k \in 1..Len(warnings') : warnings'[k] = "UnknownColorScheme"})
                 = IF \E i \in 1..Len(allProfiles') :
                         \/ heap'[allProfiles'[i]].colorScheme # heap[allProfiles'[i]].colorScheme
                         \/ heap'[allProfiles'[i]].unfocusedScheme
                                # heap[allProfiles'[i]].unfocusedScheme
                   THEN 1 ELSE 0]_vars

\* C20 witness: a load ended in which two profiles lost an unknown color
\* scheme name, one that it inherited from a fragment and one of its own,
\* and exactly one warning was recorded.
C20_Witness ==
    /\ LoadSucceeded
    /\ \E i, j \in 1..Len(allProfiles) :
          /\ i # j
          /\ heap[allProfiles[j]].colorScheme = Cleared
          /\ heap[allProfiles[i]].colorScheme = Cleared
          /\ \E c \in FragmentOverlays :
                /\ InSeq(c, heap[allProfiles[i]].parents)
                /\ heap[c].colorScheme = UnknownScheme
    /\ \E i \in 1..Len(allProfiles) : heap[allProfiles[i]].colorScheme = Unset
    /\ WarningCount("UnknownColorScheme") = 1

\* the profiles of R that have a parent in R
RECURSIVE WithParentIn(_, _, _)
WithParentIn(h, R, n) ==
    IF n = 0 THEN R
    ELSE WithParentIn(h, {p \in R : \E k \in 1..Len(h[p].parents) : h[p].parents[k] \in R},
                      n - 1)

\* no profile of the arena h is reachable from itself along parent
\* references: removing, again and again, the profiles without a parent among
\* the remaining ones leaves nothing
Acyclic(h) == WithParentIn(h, 1..Len(h), Len(h)) = {}

LoadFailed == pc = "failed" /\ loadError \in {"NoProfiles", "AllProfilesHidden"}

\* C27: if LoadAll ends with a fatal load error (NoProfiles or
\* AllProfilesHidden), the persisted generatedProfiles set is what it was
\* before the load: a failed load records no GUID as already seen.
C27_FailedLoadKeepsPersistedSet ==
    LoadFailed => (stateStored = stateLoaded /\ ~stateWritten)

\* the appended profiles (those beyond the user template's own) that carry
\* the preferred PowerShell 7+ name, by position in the catalog
PreferredPowershellPositions ==
    {i \in AppendedPositions :
        /\ heap[userSettings.profiles[i]].origin = "Generated"
        /\ heap[userSettings.profiles[i]].name = PreferredPowershellProfileName}

\* C28: when the settings file is new (missing or empty), the step of lines
\* 805-808 sets the default profile to the GUID of the generated profile
\* with the preferred PowerShell 7+ name whenever such a profile is among the
\* appended profiles, whatever its position among them, and to
\* DEFAULT_WINDOWS_POWERSHELL_GUID only when there is none.
C28_NewFileDefaultsToPreferredPowershell ==
    [][(pc = "fillBlanks" /\ pc' = "fragments" /\ settingsStringEmpty) =>
          IF PreferredPowershellPositions # {}
          THEN \E i \in PreferredPowershellPositions :
                   defaultProfile' = Guid(heap[userSettings.profiles[i]])
          ELSE defaultProfile' = DEFAULT_WINDOWS_POWERSHELL_GUID]_vars

\* ------------------------------------------------------------------------
\* _parse on its own: a document with any profile list is parsed once
\* ------------------------------------------------------------------------
\* number of elements of the profile list handed to _parse
MaxListElements == 3

\* an element of the list that is no object (a string, a number, null)
JsonScalar ==
    [JsonProfile(FALSE, NoText, FALSE, NilGuid, FALSE, NilGuid, Unset)
        EXCEPT !.isObject = FALSE]

\* the elements a profile list may hold: a scalar, an object with neither
\* name nor guid, objects with a name, with a guid, with both, and an object
\* that repeats a GUID
ListElements ==
    { JsonScalar,
      JsonProfile(FALSE, NoText, FALSE, NilGuid, FALSE, NilGuid, UserFont),
      JsonProfile(TRUE, CmdName, FALSE, NilGuid, FALSE, NilGuid, Unset),
      JsonProfile(FALSE, NoText, TRUE, 1, FALSE, NilGuid, Unset),
      JsonProfile(TRUE, WorkName, TRUE, 2, TRUE, NilGuid, UserFont),
      JsonProfile(TRUE, CmdName, TRUE, 2, FALSE, NilGuid, Unset) }

\* the origins LoadAll passes to _parse (lines 766, 771 and 821)
ParserOrigins == {"InBox", "User", "Fragment"}

\* a document is about to be parsed into an empty ParsedSettings
ParserInit ==
    /\ NotLoaded
    /\ LatchIdle
    /\ SettingsIdle
    /\ content \in [origin : ParserOrigins,
                    profilesArray : SeqsUpTo(ListElements, MaxListElements)]
    /\ parsedSettings = Catalog(<<>>, <<>>, EmptyMap, <<>>)

\* Lines 1295-1321: the profile list of the document is parsed.
Parse ==
    /\ pc = "start"
    /\ parsedSettings' = parse(<<>>, <<>>, content.origin, content.profilesArray)
    /\ pc' = "parsed"
    /\ UNCHANGED <<heap, defaultSettings, userSettings, warnings, settingsStringEmpty,
                   needToWriteFile, ignoredNamespaces, unparsedDefaultProfile,
                   userProfileCount, generatorIndex, failedGenerators,
                   invokedGenerators, fragmentFiles, fragmentSettings, defaultProfile,
                   stateLoaded, stateStored, stateWritten, allProfiles,
                   activeProfiles, loadError, fileWritten, content>>
    /\ UNCHANGED <<latchVars, settingsVars>>

ParserNext == Parse

ParserSpec == ParserInit /\ [][ParserNext]_vars

\* the elements of the list that are objects with a name or a guid, in order
RECURSIVE ProfileObjects(_)
ProfileObjects(profilesArray) ==
    IF profilesArray = <<>> THEN <<>>
    ELSE LET e == Head(profilesArray) IN
         IF e.isObject /\ (e.hasName \/ e.hasGuid)
         THEN <<e>> \o ProfileObjects(Tail(profilesArray))
         ELSE ProfileObjects(Tail(profilesArray))

\* C25: of the elements of a profile list exactly the JSON objects with a
\* `name` or a `guid` member are made profiles (in list order) and handed
\* to _append; every other element is skipped without an error and without
\* a warning; every profile made has the origin passed to the parser and an
\* explicitly set GUID (the one of the object if it has one).  The only
\* warnings are those of _append for a repeated GUID.
C25_OnlyNamedOrIdentifiedObjectsParsed ==
    pc = "parsed" =>
        LET accepted == ProfileObjects(content.profilesArray)
            made == parsedSettings.heap
        IN
        /\ Len(made) = Len(accepted)
        /\ \A k \in 1..Len(made) :
              /\ made[k].origin = content.origin
              /\ HasGuid(made[k])
              /\ accepted[k].hasGuid => made[k].guid = accepted[k].guid
              /\ made[k].name = (IF accepted[k].hasName THEN accepted[k].name ELSE NoText)
              /\ made[k].font = accepted[k].font
        /\ \A i \in 1..Len(parsedSettings.profiles) : parsedSettings.profiles[i] \in 1..Len(made)
        /\ parsedSettings.warnings
               = DuplicateWarnings(Len(made) - Len(parsedSettings.profiles))
        /\ Len(made) - Len(parsedSettings.profiles)
               = Len(made) - Cardinality({made[k].guid : k \in 1..Len(made)})

\* C25 witness: a list of three elements was parsed that held a scalar and
\* an object with neither member; the third element alone became a profile,
\* and there is no warning.
C25_Witness ==
    /\ pc = "parsed"
    /\ \E i, j \in 1..Len(content.profilesArray) :
          /\ ~content.profilesArray[i].isObject
          /\ content.profilesArray[j].isObject
          /\ ~content.profilesArray[j].hasName
          /\ ~content.profilesArray[j].hasGuid
    /\ Len(content.profilesArray) = 3
    /\ Len(parsedSettings.profiles) = 1
    /\ parsedSettings.warnings = <<>>

\* ------------------------------------------------------------------------
\* extractValueFromTaskWithoutMainThreadAwait: the caller and the coroutine
\* ------------------------------------------------------------------------
\* number of calls of the function in one load (FindAllAsync, then one
\* GetPublicFolderAsync for each extension)
MaxCalls == 3

\* the results of a task: 0 is the null folder of line 889
TaskResults == {0, 1, 2}

\* the value of a task that has not completed
NoResult == 0 - 1

\* The lambda coroutine with latch.count_down() before the emplace.
CoroutineBodyCountDownFirst == <<"resume_background", "count_down", "emplace">>

\* Lines 724-728: the statements of the lambda coroutine, in order.
CoroutineBody == <<"resume_background", "emplace", "count_down">>

\* the statement the coroutine is suspended at or runs next
CoroutineStatement ==
    IF coroutineAt \in 1..Len(CoroutineBody) THEN CoroutineBody[coroutineAt] ELSE "none"

\* the task of the running call
CurrentTask == tasks[Len(tasks)]

\* Lines 719-728: the caller makes the optional and the latch and invokes the
\* lambda, which runs on the calling thread up to resume_background().  The
\* task handed in was started by the caller (lines 877 and 888).
ExtractValue ==
    /\ callerAt = "idle"
    /\ Len(tasks) < MaxCalls
    /\ tasks' = Append(tasks, [state |-> "running", value |-> NoResult])
    /\ finalVal' = <<>>
    /\ latchCount' = 1
    /\ coroutineAt' = 1
    /\ callerAt' = "wait"
    /\ UNCHANGED <<consumed, loadVars, parserVars, settingsVars>>

\* The async operation completes with a result, or fails.
TaskCompletes ==
    /\ tasks # <<>>
    /\ CurrentTask.state = "running"
    /\ \/ \E v \in TaskResults :
             tasks' = [tasks EXCEPT ![Len(tasks)] = [state |-> "completed", value |-> v]]
       \/ tasks' = [tasks EXCEPT ![Len(tasks)].state = "failed"]
    /\ UNCHANGED <<callerAt, coroutineAt, finalVal, latchCount, consumed, loadVars, parserVars, settingsVars>>

\* Line 725: the thread pool resumes the coroutine.
ResumeBackground ==
    /\ callerAt \notin {"terminated", "threw"}
    /\ CoroutineStatement = "resume_background"
    /\ coroutineAt' = coroutineAt + 1
    /\ UNCHANGED <<callerAt, tasks, finalVal, latchCount, consumed, loadVars, parserVars, settingsVars>>

\* Line 726: co_await task resumes once the task has completed, and its
\* result is stored in the optional.
Emplace ==
    /\ callerAt \notin {"terminated", "threw"}
    /\ CoroutineStatement = "emplace"
    /\ CurrentTask.state = "completed"
    /\ finalVal' = <<CurrentTask.value>>
    /\ coroutineAt' = coroutineAt + 1
    /\ UNCHANGED <<callerAt, tasks, latchCount, consumed, loadVars, parserVars, settingsVars>>

\* Line 726: co_await of a failed task throws inside the fire_and_forget
\* coroutine, whose unhandled_exception ends the process.
AwaitThrows ==
    /\ callerAt \notin {"terminated", "threw"}
    /\ CoroutineStatement = "emplace"
    /\ CurrentTask.state = "failed"
    /\ callerAt' = "terminated"
    /\ UNCHANGED <<coroutineAt, tasks, finalVal, latchCount, consumed, loadVars, parserVars, settingsVars>>

\* Line 727: latch.count_down().
CountDown ==
    /\ callerAt \notin {"terminated", "threw"}
    /\ CoroutineStatement = "count_down"
    /\ latchCount' = latchCount - 1
    /\ coroutineAt' = coroutineAt + 1
    /\ UNCHANGED <<callerAt, tasks, finalVal, consumed, loadVars, parserVars, settingsVars>>

\* Line 730: latch.wait() returns once the count is 0.
LatchWait ==
    /\ callerAt = "wait"
    /\ latchCount = 0
    /\ callerAt' = "released"
    /\ UNCHANGED <<coroutineAt, tasks, finalVal, latchCount, consumed, loadVars, parserVars, settingsVars>>

\* Line 731: return finalVal.value(), which throws bad_optional_access when
\* the optional is empty; LoadAll goes on with the value returned.
ReturnValue ==
    /\ callerAt = "released"
    /\ IF finalVal # <<>>
       THEN /\ consumed' = Append(consumed, finalVal[1])
            /\ callerAt' = "idle"
       ELSE /\ callerAt' = "threw"
            /\ UNCHANGED consumed
    /\ UNCHANGED <<coroutineAt, tasks, finalVal, latchCount, loadVars, parserVars, settingsVars>>

LatchInit == NotLoaded /\ ParserIdle /\ LatchIdle /\ SettingsIdle

LatchNext ==
    \/ ExtractValue
    \/ TaskCompletes
    \/ ResumeBackground
    \/ Emplace
    \/ AwaitThrows
    \/ CountDown
    \/ LatchWait
    \/ ReturnValue

LatchSpec == LatchInit /\ [][LatchNext]_vars

\* C26: in every interleaving of the calling thread, the coroutine and the
\* completion of the task, the calling thread is past latch.wait() only when
\* the task has completed and the optional holds its result; the read of the
\* optional never finds it empty; and every value the function returned is
\* the result of the task of that call.
C26_ReleasedOnlyAfterResultStored ==
    /\ callerAt = "released" =>
          /\ CurrentTask.state = "completed"
          /\ finalVal = <<CurrentTask.value>>
    /\ callerAt # "threw"
    /\ Len(consumed) <= Len(tasks)
    /\ \A k \in 1..Len(consumed) :
          /\ tasks[k].state = "completed"
          /\ consumed[k] = tasks[k].value

\* C26 witness: the function was called three times and returned three
\* times, with different results among them.
C26_Witness ==
    /\ callerAt = "idle"
    /\ Len(consumed) = 3
    /\ consumed[1] # consumed[2]
    /\ consumed[3] = 0

\* ------------------------------------------------------------------------
\* The settings object in use: LoadAll as one call, Copy, CreateNewProfile,
\* DuplicateProfile, GetProfileForArgs, WriteSettingsToDisk and the next load
\* ------------------------------------------------------------------------
\* number of calls made on the settings in one run, the loads included
MaxOperations == 4

\* Lines 1363-1373 for the generators from the i-th on: r holds the catalog,
\* the generatedProfiles vector and the namespaces that threw.
RECURSIVE runGenerators(_, _, _, _)
runGenerators(r, generated, ignored, i) ==
    IF i > Len(GeneratorNamespaces) THEN r
    ELSE LET generatorNamespace == GeneratorNamespaces[i]
             out == generated[i].out
             throws == generated[i].throws
             emitted == [k \in 1..Len(out) |-> GeneratedProfile(generatorNamespace, out[k])]
             generatedProfiles == [k \in 1..Len(out) |-> Len(r.c.heap) + k]
             c0 == [r.c EXCEPT !.heap = @ \o emitted]
             c1 == IF throws \/ generatorNamespace \in ignored THEN c0
                   ELSE layerGeneratedProfiles(c0, generatedProfiles)
         IN runGenerators(
                [c |-> c1, generatedProfiles |-> generatedProfiles,
                 failed |-> IF throws THEN r.failed \cup {generatorNamespace} ELSE r.failed],
                generated, ignored, i + 1)

\* Lines 813-848 for the fragment files from the first of `files` on: r
\* holds the catalog and the ParsedSettings the last file was parsed into.
RECURSIVE parseAndLayerFragmentFiles(_, _)
parseAndLayerFragmentFiles(r, files) ==
    IF files = <<>> THEN r
    ELSE LET f == parse(r.c.heap, r.c.warnings, "Fragment", Head(files))
             c == layerFragmentProfiles(
                      Catalog(f.heap, r.c.profiles, r.c.profilesByGuid, f.warnings),
                      f.profiles, FragmentPublisher)
         IN parseAndLayerFragmentFiles(
                [c |-> c, fragmentSettings |-> ParsedSettings(0, f.profiles, f.profilesByGuid)],
                Tail(files))

\* the outcome of a load the process did not survive
Terminated ==
    [pc |-> "terminated", heap |-> <<>>,
     defaultSettings |-> ParsedSettings(0, <<>>, EmptyMap),
     userSettings |-> ParsedSettings(0, <<>>, EmptyMap),
     warnings |-> <<>>, ignoredNamespaces |-> {}, unparsedDefaultProfile |-> NoText,
     userProfileCount |-> 0, failedGenerators |-> {}, fragmentFiles |-> <<>>,
     fragmentSettings |-> ParsedSettings(0, <<>>, EmptyMap), defaultProfile |-> NilGuid,
     stateLoaded |-> {}, stateStored |-> {}, stateWritten |-> FALSE,
     allProfiles |-> <<>>, activeProfiles |-> <<>>, loadError |-> "none"]

\* Lines 761-793 for a settings.json that exists and is not empty: both
\* documents parsed, d being the ParsedSettings of defaults.json.
parsedDocuments(d, document) ==
    [Catalog(<<>>, <<>>, EmptyMap, <<>>) EXCEPT !.heap = d.heap, !.warnings = d.warnings]
        @@ [inbox |-> d.profiles, inboxByGuid |-> d.profilesByGuid,
            user |-> parse(Append(d.heap, parseProfileDefaults(
                               JsonProfile(FALSE, NoText, FALSE, NilGuid, FALSE, NilGuid,
                                           document.globals.defaultsFont))),
                           d.warnings, "User", document.list),
            profileDefaults |-> Len(d.heap) + 1,
            ignored |-> document.globals.disabledProfileSources,
            unparsed |-> document.globals.defaultProfile]

\* Lines 796-799: defaults.json and the generators are layered onto the
\* user's profiles.
generatedLayered(l, e) ==
    [l EXCEPT !.user = runGenerators(
                           [c |-> layerGeneratedProfiles(l.user, l.inbox),
                            generatedProfiles |-> l.inbox, failed |-> {}],
                           e.generated, l.ignored, 1)]
        @@ [count |-> Len(l.user.profiles)]

\* Lines 813-907: the fragment files, unless the publisher is ignored.
fragmentsLayered(l, files) ==
    [l EXCEPT !.user = parseAndLayerFragmentFiles(
                           [c |-> l.user.c,
                            fragmentSettings |-> ParsedSettings(0, <<>>, EmptyMap)],
                           files)]
        @@ [generatedProfiles |-> l.user.generatedProfiles, failed |-> l.user.failed,
            files |-> files]

\* Lines 909-942: profiles.defaults becomes the first parent of every
\* profile, and the profiles of the span the user removed are hidden.
deletedDisabled(l, state) ==
    [l EXCEPT !.user = disableDeletedProfiles(
                           [heap |-> insertProfileDefaults(l.user.c.heap, l.user.c.profiles,
                                                           l.profileDefaults),
                            generatedProfileIds |-> state,
                            newGeneratedProfiles |-> FALSE],
                           getDynamicProfiles(l.user.c.profiles, l.count).items)]
        @@ [all |-> l.user.c.profiles, byGuid |-> l.user.c.profilesByGuid,
            found |-> l.user.c.warnings, fragmentSettings |-> l.user.fragmentSettings,
            spanValid |-> getDynamicProfiles(l.user.c.profiles, l.count).valid,
            state |-> state]

\* Lines 944-975: the defaults of defaults.json become the parent of the
\* user's profiles.defaults.
defaultsLinked(l) ==
    [l EXCEPT !.heap = InsertParent(l.user.heap, l.profileDefaults, 1)]

\* the state a load leaves behind whatever its outcome
reachedBy(l) ==
    [Terminated EXCEPT
        !.defaultSettings = ParsedSettings(1, l.generatedProfiles, l.inboxByGuid),
        !.userSettings = ParsedSettings(l.profileDefaults, l.all, l.byGuid),
        !.ignoredNamespaces = l.ignored,
        !.unparsedDefaultProfile = l.unparsed,
        !.userProfileCount = l.count,
        !.failedGenerators = l.failed,
        !.fragmentFiles = l.files,
        !.fragmentSettings = l.fragmentSettings,
        !.stateLoaded = l.state,
        !.stateStored = IF l.user.newGeneratedProfiles THEN l.user.generatedProfileIds
                        ELSE l.state,
        !.stateWritten = l.user.newGeneratedProfiles]

\* Lines 978-979 and 998-1003: _FinalizeSettings and _validateSettings on
\* the lists built, default being the outcome of
\* _validateDefaultProfileExists and schemes that of _validateAllSchemesExist.
validated(l, default, schemes) ==
    IF nonHidden(l.heap, l.all) = <<>>
    THEN [reachedBy(l) EXCEPT !.pc = "failed", !.heap = l.heap,
                              !.loadError = "AllProfilesHidden"]
    ELSE [reachedBy(l) EXCEPT
             !.pc = "done", !.heap = schemes.heap,
             !.warnings = (IF default.missing THEN Append(l.found, "MissingDefaultProfile")
                           ELSE l.found)
                          \o (IF schemes.foundInvalidScheme THEN <<"UnknownColorScheme">>
                              ELSE <<>>),
             !.defaultProfile = default.defaultProfile,
             !.allProfiles = l.all, !.activeProfiles = nonHidden(l.heap, l.all)]

\* the load from the point where the lists are built
finalized(l) ==
    IF ~l.spanValid THEN Terminated
    ELSE validated(l,
                   validateDefaultProfileExists(
                       l.heap, l.all,
                       ResolveDefaultProfile(l.heap, l.all, l.unparsed, NilGuid)),
                   validateAllSchemesExist([heap |-> l.heap, foundInvalidScheme |-> FALSE],
                                           l.all))

\* Lines 758-1003 for a settings.json that exists and is not empty: the
\* outcome of LoadAll for that document, the environment e and the
\* persisted set `state`.
loadAll(document, e, state) ==
    finalized(defaultsLinked(deletedDisabled(
        fragmentsLayered(
            generatedLayered(
                parsedDocuments(
                    parse(<<parseProfileDefaults(
                              JsonProfile(FALSE, NoText, FALSE, NilGuid, FALSE, NilGuid,
                                          e.defaultJson.defaultsFont))>>,
                          <<>>, "InBox", e.defaultJson.list),
                    document),
                e),
            IF FragmentPublisher \in document.globals.disabledProfileSources
            THEN <<>> ELSE e.fragments),
        state)))

\* what the user sees of the settings: GUID, name and effective values of
\* each active profile, in order
Observables(h, active) ==
    [i \in 1..Len(active) |->
        [guid |-> Guid(h[active[i]]), name |-> h[active[i]].name,
         font |-> EffectiveFont(h, active[i]),
         colorScheme |-> ColorSchemeName(h, active[i], "colorScheme"),
         unfocusedScheme |-> EffectiveSetting(h, active[i], "unfocusedScheme")]]

\* a call of operation op that returned result
Call(op, result) == [NoCall EXCEPT !.op = op, !.result = result]

\* LoadAll: the first load of the run, or a load of the settings.json as it
\* is now, with the generators and the fragment files giving what they gave
\* before and the persisted set as the last load left it.
LoadAll ==
    /\ pc \in {"start", "done"}
    /\ operations < MaxOperations
    /\ LET state == IF pc = "start" THEN environment.state ELSE stateStored
           r == loadAll(settingsFile, environment, state)
       IN
       /\ pc' = r.pc
       /\ heap' = r.heap
       /\ defaultSettings' = r.defaultSettings
       /\ userSettings' = r.userSettings
       /\ warnings' = r.warnings
       /\ ignoredNamespaces' = r.ignoredNamespaces
       /\ unparsedDefaultProfile' = r.unparsedDefaultProfile
       /\ userProfileCount' = r.userProfileCount
       /\ failedGenerators' = r.failedGenerators
       /\ invokedGenerators' = IF r.pc = "terminated" THEN {}
                               ELSE {GeneratorNamespaces[i] : i \in 1..Len(GeneratorNamespaces)}
       /\ generatorIndex' = IF r.pc = "terminated" THEN 1 ELSE Len(GeneratorNamespaces) + 1
       /\ fragmentFiles' = r.fragmentFiles
       /\ fragmentSettings' = r.fragmentSettings
       /\ defaultProfile' = r.defaultProfile
       /\ stateLoaded' = r.stateLoaded
       /\ stateStored' = IF r.pc = "terminated" THEN state ELSE r.stateStored
       /\ stateWritten' = r.stateWritten
       /\ allProfiles' = r.allProfiles
       /\ activeProfiles' = r.activeProfiles
       /\ loadError' = r.loadError
       /\ loaded' = Observables(r.heap, r.activeProfiles)
    /\ settingsStringEmpty' = FALSE
    /\ needToWriteFile' = FALSE
    /\ fileWritten' = "no"
    /\ settingsFile' = [settingsFile EXCEPT !.ofLoad = FALSE]
    /\ lastCall' = Call("LoadAll", 0)
    /\ operations' = operations + 1
    /\ edited' = FALSE
    /\ UNCHANGED <<environment, parserVars, latchVars>>

\* the names of the profiles of `all`
ProfileNames(h, all) == {h[all[i]].name : i \in 1..Len(all)}

\* CreateNewProfile that takes the first candidate without looking at the
\* names in use.
newProfileNameFirstCandidate(h, all) == "Profile " \o ToString(Len(all) + 1)

\* Lines 160-169: the loop over candidateIndex < count; the name is the last
\* one formatted when the loop ends, with or without the break.
RECURSIVE newProfileNameFrom(_, _, _)
newProfileNameFrom(names, count, candidateIndex) ==
    LET newName == "Profile " \o ToString(count + candidateIndex) IN
    IF newName \notin names \/ candidateIndex + 1 >= count THEN newName
    ELSE newProfileNameFrom(names, count, candidateIndex + 1)

newProfileName(h, all) == newProfileNameFrom(ProfileNames(h, all), Len(all) + 1, 0)

\* Lines 193-204: newName is tested, and replaced by the numbered name if it
\* is in use; the name formatted in the last iteration is not tested.
RECURSIVE duplicateNameFrom(_, _, _, _, _)
duplicateNameFrom(names, sourceName, count, candidateIndex, newName) ==
    IF newName \notin names THEN newName
    ELSE LET next == sourceName \o " (Copy " \o ToString(candidateIndex + 2) \o ")" IN
         IF candidateIndex + 1 >= count THEN next
         ELSE duplicateNameFrom(names, sourceName, count, candidateIndex + 1, next)

duplicateName(h, all, source) ==
    duplicateNameFrom(ProfileNames(h, all), h[source].name, Len(all) + 1, 0,
                      h[source].name \o " (Copy)")

\* CascadiaSettings::_CreateNewProfile: a child of profiles.defaults with a
\* GUID of its own (CoCreateGuid: different from every GUID there is).
createNewProfile(h, profileDefaults, name) ==
    [NewProfile EXCEPT !.guid = 200 + Len(h), !.name = name,
                       !.parents = <<profileDefaults>>]

\* the settings object is in use
InUse == pc = "done" /\ operations < MaxOperations

\* CascadiaSettings::CreateNewProfile
CreateNewProfile ==
    /\ InUse
    /\ LET newProfile == Len(heap) + 1 IN
       /\ heap' = Append(heap, createNewProfile(heap, userSettings.profileDefaults,
                                                newProfileName(heap, allProfiles)))
       /\ allProfiles' = Append(allProfiles, newProfile)
       /\ activeProfiles' = Append(activeProfiles, newProfile)
       /\ lastCall' = Call("CreateNewProfile", newProfile)
    /\ operations' = operations + 1
    /\ edited' = TRUE
    /\ UNCHANGED <<pc, defaultSettings, userSettings, warnings, settingsStringEmpty,
                   needToWriteFile, ignoredNamespaces, unparsedDefaultProfile,
                   userProfileCount, generatorIndex, failedGenerators,
                   invokedGenerators, fragmentFiles, fragmentSettings, defaultProfile,
                   stateLoaded, stateStored, stateWritten, loadError, fileWritten,
                   environment, settingsFile, loaded, parserVars, latchVars>>

\* IInheritable: the parent the setting named key is inherited from (0 if no
\* parent declares it)
RECURSIVE FirstSourceOf(_, _, _, _)
RECURSIVE SourceWithin(_, _, _, _)
FirstSourceOf(h, ps, key, depth) ==
    IF ps = <<>> THEN 0
    ELSE LET found == SourceWithin(h, Head(ps), key, depth) IN
         IF found # 0 THEN found ELSE FirstSourceOf(h, Tail(ps), key, depth)

SourceWithin(h, p, key, depth) ==
    IF h[p][key] # Unset THEN p
    ELSE IF depth = 0 THEN 0
    ELSE FirstSourceOf(h, h[p].parents, key, depth - 1)

OverrideSource(h, p, key) == FirstSourceOf(h, h[p].parents, key, Len(h))

\* Lines 217-221 and 281-282: the setting is duplicated if the source sets
\* it itself or inherits it from a profile other than profiles.defaults.
isDuplicated(h, source, key) ==
    \/ h[source][key] # Unset
    \/ /\ OverrideSource(h, source, key) # 0
       /\ h[OverrideSource(h, source, key)].origin # "ProfilesDefaults"

\* Lines 206-308: the duplicate and its settings; Hidden is not duplicated.
duplicateProfile(h, profileDefaults, source, name) ==
    [createNewProfile(h, profileDefaults, name) EXCEPT
        !.font = IF isDuplicated(h, source, "font")
                 THEN EffectiveFont(h, source) ELSE Unset,
        !.colorScheme = IF isDuplicated(h, source, "colorScheme")
                        THEN ColorSchemeName(h, source, "colorScheme") ELSE Unset,
        !.unfocusedScheme = IF isDuplicated(h, source, "unfocusedScheme")
                            THEN EffectiveSetting(h, source, "unfocusedScheme") ELSE Unset]

\* CascadiaSettings::DuplicateProfile, for a source that is a profile of
\* these settings
DuplicateProfile ==
    /\ InUse
    /\ \E i \in 1..Len(allProfiles) :
        LET source == allProfiles[i]
            duplicated == Len(heap) + 1
        IN
        /\ heap' = Append(heap, duplicateProfile(heap, userSettings.profileDefaults, source,
                                                 duplicateName(heap, allProfiles, source)))
        /\ allProfiles' = Append(allProfiles, duplicated)
        /\ activeProfiles' = Append(activeProfiles, duplicated)
        /\ lastCall' = [Call("DuplicateProfile", duplicated) EXCEPT !.source = source]
    /\ operations' = operations + 1
    /\ edited' = TRUE
    /\ UNCHANGED <<pc, defaultSettings, userSettings, warnings, settingsStringEmpty,
                   needToWriteFile, ignoredNamespaces, unparsedDefaultProfile,
                   userProfileCount, generatorIndex, failedGenerators,
                   invokedGenerators, fragmentFiles, fragmentSettings, defaultProfile,
                   stateLoaded, stateStored, stateWritten, loadError, fileWritten,
                   environment, settingsFile, loaded, parserVars, latchVars>>

\* Copy that lists every copy as active.
copyProfilesAllActive(h, all) ==
    LET copies == [i \in 1..Len(all) |-> Len(h) + i] IN
    [heap |-> h \o [i \in 1..Len(all) |-> h[all[i]]],
     allProfiles |-> copies, activeProfiles |-> copies]

\* Lines 27-40: every profile of _allProfiles is copied (the copy takes the
\* next place of the arena), and the copies that are not hidden are listed
\* as active.
copyProfiles(h, all) ==
    LET copies == [i \in 1..Len(all) |-> Len(h) + i]
        h1 == h \o [i \in 1..Len(all) |-> h[all[i]]]
    IN [heap |-> h1, allProfiles |-> copies, activeProfiles |-> nonHidden(h1, copies)]

\* CascadiaSettings::Copy: the copy becomes the settings in use.
Copy ==
    /\ InUse
    /\ LET c == copyProfiles(heap, allProfiles) IN
       /\ heap' = Append(c.heap, heap[userSettings.profileDefaults])
       /\ allProfiles' = c.allProfiles
       /\ activeProfiles' = c.activeProfiles
       /\ userSettings' = [userSettings EXCEPT !.profileDefaults = Len(c.heap) + 1]
    /\ lastCall' = Call("Copy", 0)
    /\ operations' = operations + 1
    /\ UNCHANGED <<pc, defaultSettings, warnings, settingsStringEmpty,
                   needToWriteFile, ignoredNamespaces, unparsedDefaultProfile,
                   userProfileCount, generatorIndex, failedGenerators,
                   invokedGenerators, fragmentFiles, fragmentSettings, defaultProfile,
                   stateLoaded, stateStored, stateWritten, loadError, fileWritten,
                   environment, settingsFile, edited, loaded, parserVars, latchVars>>

\* Profile::ToJson: the members the profile itself holds
profileToJson(p) ==
    [isObject |-> TRUE, hasName |-> p.name # NoText, name |-> p.name,
     hasGuid |-> p.guid # NilGuid, guid |-> p.guid, hidden |-> p.hidden,
     updates |-> p.updates, font |-> p.font, colorScheme |-> p.colorScheme,
     unfocusedScheme |-> p.unfocusedScheme, source |-> p.source]

\* ToJson that serializes the profiles that are not hidden.
RECURSIVE profilesListOfShown(_, _)
profilesListOfShown(h, all) ==
    IF all = <<>> THEN <<>>
    ELSE IF h[Head(all)].hidden THEN profilesListOfShown(h, Tail(all))
         ELSE <<profileToJson(h[Head(all)])>> \o profilesListOfShown(h, Tail(all))

\* Lines 1132-1140: the profiles that are not deleted, in order.
RECURSIVE profilesList(_, _)
profilesList(h, all) ==
    IF all = <<>> THEN <<>>
    ELSE IF h[Head(all)].deleted THEN profilesList(h, Tail(all))
         ELSE <<profileToJson(h[Head(all)])>> \o profilesList(h, Tail(all))

\* GlobalAppSettings::ToJson: disabledProfileSources, the default profile
\* as a GUID string, and the setting of profiles.defaults (lines 1130-1131)
globalsToJson(h, profileDefaults, ignored, guid) ==
    [disabledProfileSources |-> ignored,
     defaultProfile |-> IF guid \in DeclaredGuids THEN GuidToString(guid) ELSE NoText,
     defaultsFont |-> h[profileDefaults].font]

\* CascadiaSettings::WriteSettingsToDisk: the file is replaced by ToJson(),
\* or WriteUTF8FileAtomic throws and the file stays as it is.
WriteSettingsToDisk ==
    /\ InUse
    /\ \E written \in BOOLEAN :
        /\ settingsFile' =
              IF written
              THEN [list |-> profilesList(heap, allProfiles),
                    globals |-> globalsToJson(heap, userSettings.profileDefaults,
                                              ignoredNamespaces, defaultProfile),
                    ofLoad |-> ~edited]
              ELSE settingsFile
        /\ lastCall' = Call("WriteSettingsToDisk", IF written THEN 1 ELSE 0)
    /\ operations' = operations + 1
    /\ UNCHANGED <<loadVars, environment, edited, loaded, parserVars, latchVars>>

\* CascadiaSettings::FindProfile: the first profile with that GUID, 0 for
\* nullptr
RECURSIVE FindProfile(_, _, _)
FindProfile(h, all, guid) ==
    IF all = <<>> THEN 0
    ELSE IF Guid(h[Head(all)]) = guid THEN Head(all)
         ELSE FindProfile(h, Tail(all), guid)

\* text of the length and the shape of a GUID string that is no GUID
MalformedGuidString == "{x}"

\* Lines 415-454 with the function-try-block: GuidFromString (not part of
\* the sources) is handed every text of 38 characters that starts with '{';
\* for one that is no GUID it throws, which is caught at line 449, or it
\* returns a GUID of no profile.
getProfileGuidByName(h, all, name, throws) ==
    IF name = MalformedGuidString /\ throws THEN NilGuid
    ELSE GetProfileGuidByName(h, all, name)

\* CascadiaSettings::_GetProfileGuidByIndex
getProfileGuidByIndex(h, active, hasIndex, index) ==
    IF hasIndex /\ index >= 0 /\ index < Len(active)
    THEN Guid(h[active[index + 1]])
    ELSE NilGuid

\* the profiles.defaults record of the settings in use
ProfileDefaults == userSettings.profileDefaults

\* Lines 368-407
getProfileForArgs(args, throws) ==
    LET profileByIndex ==
            IF args.hasArgs
            THEN getProfileGuidByIndex(heap, activeProfiles, args.hasIndex, args.index)
            ELSE NilGuid
        profileByName ==
            IF args.hasArgs
            THEN getProfileGuidByName(heap, allProfiles, args.profile, throws)
            ELSE NilGuid
    IN IF profileByName # NilGuid THEN FindProfile(heap, allProfiles, profileByName)
       ELSE IF profileByIndex # NilGuid THEN FindProfile(heap, allProfiles, profileByIndex)
       ELSE IF args.featureEnabled /\ args.hasArgs /\ args.commandline THEN ProfileDefaults
       ELSE FindProfile(heap, allProfiles, defaultProfile)

\* the NewTerminalArgs a caller may pass: none, or a profile text (empty, a
\* GUID string of a profile or of none, a name of a profile or of none, a
\* malformed GUID string), an index (none, negative, in or out of range)
\* and a commandline
NewTerminalArgs ==
    {[NoCall EXCEPT !.op = "GetProfileForArgs"]} \cup
    {[NoCall EXCEPT !.op = "GetProfileForArgs", !.hasArgs = TRUE, !.profile = profile,
                    !.hasIndex = index[1], !.index = index[2], !.commandline = commandline] :
        profile \in {NoText, "{1}", "{6}", CmdName, "Nobody", MalformedGuidString},
        index \in {<<FALSE, 0>>, <<TRUE, 0 - 1>>, <<TRUE, 0>>, <<TRUE, 1>>, <<TRUE, 9>>},
        commandline \in BOOLEAN}

\* CascadiaSettings::GetProfileForArgs, in a build with or without
\* Feature_ShowProfileDefaultsInSettings
GetProfileForArgs ==
    /\ InUse
    /\ \E args \in NewTerminalArgs, featureEnabled \in BOOLEAN, throws \in BOOLEAN :
        LET call == [args EXCEPT !.featureEnabled = featureEnabled] IN
        lastCall' = [call EXCEPT !.result = getProfileForArgs(call, throws)]
    /\ operations' = operations + 1
    /\ UNCHANGED <<loadVars, environment, settingsFile, edited, loaded, parserVars, latchVars>>

\* the profile of defaults.json
WindowsPowershellObject ==
    JsonProfile(TRUE, WindowsPowershellName, TRUE, DEFAULT_WINDOWS_POWERSHELL_GUID,
                FALSE, NilGuid, InBoxFont)

\* what the generators emit in the runs below: PowerShell Core alone
PowershellCoreOnly ==
    << [out |-> << [name |-> PreferredPowershellProfileName, guid |-> 4] >>, throws |-> FALSE],
       [out |-> <<>>, throws |-> FALSE],
       [out |-> <<>>, throws |-> FALSE] >>

\* The installations the settings are loaded on, each with its settings.json:
\*  1. no profile in settings.json; PowerShell Core was seen before, so it is
\*     hidden as deleted; a fragment brings a hidden profile
\*  2. the same without the fragment
\*  3. settings.json names "{1}" as default and declares Cmd (GUID 1) and a
\*     profile whose name has the shape of a GUID string
\*  4. settings.json declares a profile named "Profile 5" and a hidden one;
\*     a fragment overlays its setting onto the first
Installations ==
    { [environment |->
          [defaultJson |-> [defaultsFont |-> InBoxDefaultsFont,
                            list |-> <<WindowsPowershellObject>>],
           generated |-> PowershellCoreOnly,
           fragments |-> << <<JsonProfile(TRUE, FragmentName, TRUE, 7, TRUE, NilGuid, Unset)>> >>,
           state |-> {4}],
       settingsFile |-> [list |-> <<>>, globals |-> NoGlobals, ofLoad |-> FALSE]],
      [environment |->
          [defaultJson |-> [defaultsFont |-> Unset, list |-> <<WindowsPowershellObject>>],
           generated |-> PowershellCoreOnly,
           fragments |-> <<>>,
           state |-> {4}],
       settingsFile |-> [list |-> <<>>, globals |-> NoGlobals, ofLoad |-> FALSE]],
      [environment |->
          [defaultJson |-> [defaultsFont |-> Unset, list |-> <<WindowsPowershellObject>>],
           generated |-> PowershellCoreOnly,
           fragments |-> <<>>,
           state |-> {}],
       settingsFile |->
          [list |-> << WithSchemes(JsonProfile(TRUE, CmdName, TRUE, 1, FALSE, NilGuid, UserFont),
                                   CampbellScheme, UnknownScheme),
                       JsonProfile(TRUE, MalformedGuidString, TRUE, 5, FALSE, NilGuid, Unset) >>,
           globals |-> [disabledProfileSources |-> {}, defaultProfile |-> "{1}",
                        defaultsFont |-> UserDefaultsFont],
           ofLoad |-> FALSE]],
      [environment |->
          [defaultJson |-> [defaultsFont |-> Unset, list |-> <<WindowsPowershellObject>>],
           generated |-> PowershellCoreOnly,
           fragments |-> << <<JsonProfile(TRUE, FragmentName, FALSE, NilGuid, FALSE, 1,
                                          FragmentFont)>> >>,
           state |-> {}],
       settingsFile |->
          [list |-> << JsonProfile(TRUE, "Profile 5", TRUE, 1, FALSE, NilGuid, Unset),
                       JsonProfile(TRUE, WorkName, TRUE, 2, TRUE, NilGuid, UserFont) >>,
           globals |-> [disabledProfileSources |-> {WslDistroNamespace},
                        defaultProfile |-> WorkName, defaultsFont |-> Unset],
           ofLoad |-> FALSE]] }

\* the application starts on one of the installations
SettingsInit ==
    /\ NotLoaded
    /\ ParserIdle
    /\ LatchIdle
    /\ \E installation \in Installations :
          /\ environment = installation.environment
          /\ settingsFile = installation.settingsFile
    /\ lastCall = NoCall
    /\ operations = 0
    /\ edited = FALSE
    /\ loaded = <<>>

SettingsNext ==
    \/ LoadAll
    \/ CreateNewProfile
    \/ DuplicateProfile
    \/ Copy
    \/ WriteSettingsToDisk
    \/ GetProfileForArgs

SettingsSpec == SettingsInit /\ [][SettingsNext]_vars

\* the profiles of `all` that are not hidden, in order
Shown(h, all) == SelectSeq(all, LAMBDA p : ~h[p].hidden)

\* C21: whenever a load has succeeded, and after every CreateNewProfile,
\* DuplicateProfile and Copy that follows, activeProfiles is the
\* subsequence of allProfiles made of the profiles that are not hidden, in
\* the same order: no active profile is hidden and every one is in
\* allProfiles.
C21_ActiveAreTheShownOfAll ==
    pc = "done" =>
        /\ activeProfiles = Shown(heap, allProfiles)
        /\ \A i \in 1..Len(activeProfiles) :
              /\ ~heap[activeProfiles[i]].hidden
              /\ InSeq(activeProfiles[i], allProfiles)

\* C21 witness: a Copy was made of settings that hold a hidden profile, a
\* profile made by CreateNewProfile and one made by DuplicateProfile.
C21_Witness ==
    /\ pc = "done"
    /\ lastCall.op = "Copy"
    /\ \E i, j, k \in 1..Len(allProfiles) :
          /\ heap[allProfiles[i]].hidden
          /\ heap[allProfiles[j]].name = "Profile 6"
          /\ heap[allProfiles[k]].name = "Work (Copy)"
    /\ Len(activeProfiles) = 5

\* the profiles of `all` that are not deleted, in order
Kept(h, all) == SelectSeq(all, LAMBDA p : ~h[p].deleted)

\* C22: the profile list WriteSettingsToDisk writes (the one of ToJson) holds
\* one object for each profile of allProfiles that is not deleted, in the
\* order of allProfiles, with its name, GUID and hidden flag: a deleted
\* profile is left out, a profile that is hidden and not deleted is written.
C22_ToJsonListsTheNotDeleted ==
    (lastCall.op = "WriteSettingsToDisk" /\ lastCall.result = 1) =>
        LET kept == Kept(heap, allProfiles) IN
        /\ Len(settingsFile.list) = Len(kept)
        /\ \A k \in 1..Len(kept) :
              /\ settingsFile.list[k].isObject
              /\ settingsFile.list[k].guid = Guid(heap[kept[k]])
              /\ settingsFile.list[k].name = heap[kept[k]].name
              /\ settingsFile.list[k].hidden = heap[kept[k]].hidden

\* C22 witness: settings with a deleted profile and a profile that is hidden
\* and not deleted were written.
C22_Witness ==
    /\ lastCall.op = "WriteSettingsToDisk"
    /\ lastCall.result = 1
    /\ \E i, j \in 1..Len(allProfiles) :
          /\ heap[allProfiles[i]].deleted
          /\ heap[allProfiles[j]].hidden
          /\ ~heap[allProfiles[j]].deleted
    /\ Len(settingsFile.list) = 2

\* C24: a load of the settings.json that WriteSettingsToDisk wrote from the
\* settings a successful load returned (nothing created in between), with
\* the generators, the fragments and the persisted state as that load left
\* them, succeeds and returns the same active profiles (same GUIDs, same
\* order) with the same effective values.
C24_ReloadOfSerializedIsSame ==
    [][(pc = "done" /\ settingsFile.ofLoad /\ lastCall'.op = "LoadAll"
            /\ operations' = operations + 1)
        => (pc' = "done" /\ loaded' = loaded)]_vars

\* the profiles of allProfiles of that GUID string, and of that name
MatchedByGuid(profile) ==
    {p \in {allProfiles[i] : i \in 1..Len(allProfiles)} :
        Guid(heap[p]) \in DeclaredGuids /\ GuidToString(Guid(heap[p])) = profile}

MatchedByName(profile) ==
    {p \in {allProfiles[i] : i \in 1..Len(allProfiles)} : heap[p].name = profile}

\* the default profile of the settings
DefaultProfiles ==
    {p \in {allProfiles[i] : i \in 1..Len(allProfiles)} : Guid(heap[p]) = defaultProfile}

\* C29: GetProfileForArgs returns the profile the profile text of the args
\* matches (as a GUID string first, else as a name) also when a valid index
\* is given; else the index-th active profile if the args carry an index
\* with 0 <= index < size of activeProfiles; else, an index out of range
\* being ignored, the default profile, or the profiles.defaults record when
\* the args carry a commandline and the feature is enabled.
C29_ProfileForArgsOrder ==
    lastCall.op = "GetProfileForArgs" =>
        LET byGuid == IF lastCall.hasArgs /\ lastCall.profile # NoText
                      THEN MatchedByGuid(lastCall.profile) ELSE {}
            byName == IF lastCall.hasArgs /\ lastCall.profile # NoText
                      THEN MatchedByName(lastCall.profile) ELSE {}
            validIndex == /\ lastCall.hasArgs
                          /\ lastCall.hasIndex
                          /\ lastCall.index >= 0
                          /\ lastCall.index < Len(activeProfiles)
        IN
        IF byGuid # {} THEN lastCall.result \in byGuid
        ELSE IF byName # {} THEN lastCall.result \in byName
        ELSE IF validIndex THEN lastCall.result = activeProfiles[lastCall.index + 1]
        ELSE IF lastCall.featureEnabled /\ lastCall.hasArgs /\ lastCall.commandline
        THEN lastCall.result = ProfileDefaults
        ELSE lastCall.result \in DefaultProfiles

\* C30: CreateNewProfile and DuplicateProfile return a new profile whose
\* name differs from the name of every profile that was in allProfiles, and
\* append that profile, and nothing else, to the end of allProfiles and of
\* activeProfiles; no profile that existed is changed.  The calls are
\* possible whatever the names in use are.
C30_NewProfileNamedApart ==
    /\ [](InUse => ENABLED CreateNewProfile /\ ENABLED DuplicateProfile)
    /\ [][(lastCall'.op \in {"CreateNewProfile", "DuplicateProfile"}
              /\ operations' = operations + 1)
          => /\ lastCall'.result = Len(heap) + 1
             /\ Len(heap') = Len(heap) + 1
             /\ \A p \in 1..Len(heap) : heap'[p] = heap[p]
             /\ allProfiles' = Append(allProfiles, lastCall'.result)
             /\ activeProfiles' = Append(activeProfiles, lastCall'.result)
             /\ \A i \in 1..Len(allProfiles) :
                   /\ heap'[lastCall'.result].name # heap[allProfiles[i]].name
                   /\ Guid(heap'[lastCall'.result]) # Guid(heap[allProfiles[i]])]_vars

\* C30 witness: after a CreateNewProfile whose first candidate "Profile 5"
\* was in use, a profile was duplicated a second time, so that "(Copy)" was
\* in use as well and the numbered name was given.
C30_Witness ==
    /\ lastCall.op = "DuplicateProfile"
    /\ heap[lastCall.result].name = heap[lastCall.source].name \o " (Copy 2)"
    /\ \E i, j \in 1..Len(allProfiles) :
          /\ heap[allProfiles[i]].name = "Profile 5"
          /\ heap[allProfiles[j]].name = "Profile 6"

====
